---- MODULE Spec2Model ----
(***************************************************************************)
(* Model of web_budget_app.py: the record store, the Plaid transaction     *)
(* sync, and the three analysis passes (recurring detection, spending     *)
(* categorisation, bill projection).                                       *)
(*                                                                         *)
(* Representation.                                                         *)
(*  - Text (descriptions, categories, dates, keys, cursors) is a string;   *)
(*    lower(), split(), join(), "in", str() and strftime() are computed    *)
(*    character by character.                                              *)
(*  - A monetary amount is an integer number of cents.  Python computes    *)
(*    with binary doubles; every comparison of the model is the exact      *)
(*    one, except the amount-stability test, whose outcome at an exact     *)
(*    tie depends on rounding and is left open (see AmountStable).         *)
(*  - A moment is [day |-> proleptic Gregorian ordinal, tod |-> 0 or 1],   *)
(*    tod = 0 standing for midnight and 1 for any later time of the day.   *)
(***************************************************************************)
EXTENDS Integers, Sequences, FiniteSets, TLC

VARIABLES
    store,      \* the record set persisted in DATA_FILE
    now,        \* datetime.now()
    sync,       \* the sync_transactions request in progress
    result,     \* what the last analysis pass or request returned
    env,        \* what plaid_client may answer, and how many sync requests arrive
    held        \* a bills POST that has loaded the record set and not yet saved it

vars == <<store, now, sync, result, env, held>>

-----------------------------------------------------------------------------
(* The texts that occur in the explored record sets.  The text functions   *)
(* below are tabulated over them once; on any other text they are computed *)
(* directly.                                                               *)

Descriptions ==
    {"Acme Corp Payroll", "Shell Gas Station", "Coffee Shop", "City Water Utility",
     "Whole Foods Market", "Amazon Purchase", "Gym Membership", "Netflix",
     "Netflix Subscription", "Netflix Subscription Monthly 01",
     "NETFLIX  subscription\tmonthly 02",
     "Round-Up Transfer", "Payroll Refund", "Costco Gas", "Credit Card Payment"}

Categories ==
    {"Income", "Travel", "Food and Drink", "Service", "Shops", "Recreation",
     "Utilities", "Uncategorized"}

Texts == Descriptions \cup Categories

-----------------------------------------------------------------------------
(* Characters and strings                                                  *)

UpperChars == "ABCDEFGHIJKLMNOPQRSTUVWXYZ"
LowerChars == "abcdefghijklmnopqrstuvwxyz"
DigitChars == "0123456789"

CharAt(s, i) == SubSeq(s, i, i)

\* position of the one-character string c in s, 0 when absent
RECURSIVE IndexOf(_, _, _)
IndexOf(s, c, i) ==
    IF i > Len(s) THEN 0
    ELSE IF CharAt(s, i) = c THEN i
    ELSE IndexOf(s, c, i + 1)

\* the lower-case letter of each upper-case letter
LowerTable ==
    [c \in {CharAt(UpperChars, i) : i \in 1..Len(UpperChars)} |->
        CharAt(LowerChars, IndexOf(UpperChars, c, 1))]

LowerChar(c) == IF c \in DOMAIN LowerTable THEN LowerTable[c] ELSE c

\* str.lower()
RECURSIVE LowerOf(_)
LowerOf(s) ==
    IF Len(s) = 0 THEN ""
    ELSE LowerChar(CharAt(s, 1)) \o LowerOf(SubSeq(s, 2, Len(s)))

LowerMemo == [s \in Texts |-> LowerOf(s)]

lower(s) == IF s \in DOMAIN LowerMemo THEN LowerMemo[s] ELSE LowerOf(s)

IsSpace(c) == c \in {" ", "\t"}

\* str.split(): the maximal runs of non-whitespace characters, in order
RECURSIVE SplitFrom(_, _, _)
SplitFrom(s, i, cur) ==
    IF i > Len(s) THEN (IF cur = "" THEN <<>> ELSE <<cur>>)
    ELSE IF IsSpace(CharAt(s, i))
         THEN (IF cur = "" THEN <<>> ELSE <<cur>>) \o SplitFrom(s, i + 1, "")
         ELSE SplitFrom(s, i + 1, cur \o CharAt(s, i))

split(s) == SplitFrom(s, 1, "")

\* sep.join(words)
RECURSIVE join(_, _)
join(sep, words) ==
    IF Len(words) = 0 THEN ""
    ELSE IF Len(words) = 1 THEN words[1]
    ELSE words[1] \o sep \o join(sep, Tail(words))

\* words[:n]
Take(seq, n) == SubSeq(seq, 1, IF Len(seq) < n THEN Len(seq) ELSE n)

\* keyword in text
Contains(text, keyword) ==
    \E i \in 1..(Len(text) - Len(keyword) + 1) :
        SubSeq(text, i, i + Len(keyword) - 1) = keyword

\* the value of each decimal digit
DigitTable ==
    [c \in {CharAt(DigitChars, i) : i \in 1..Len(DigitChars)} |->
        IndexOf(DigitChars, c, 1) - 1]

IsDigit(c) == c \in DOMAIN DigitTable
DigitVal(c) == DigitTable[c]

AllDigits(s) == \A i \in 1..Len(s) : IsDigit(CharAt(s, i))

\* int(s) for a string of decimal digits
RECURSIVE ParseNat(_)
ParseNat(s) ==
    IF Len(s) = 0 THEN 0
    ELSE 10 * ParseNat(SubSeq(s, 1, Len(s) - 1)) + DigitVal(CharAt(s, Len(s)))

\* the decimal digits of n >= 0
RECURSIVE NatStr(_)
NatStr(n) ==
    IF n < 10 THEN CharAt(DigitChars, n + 1)
    ELSE NatStr(n \div 10) \o CharAt(DigitChars, (n % 10) + 1)

\* n formatted in at least w digits, zero-filled
RECURSIVE ZeroPad(_, _)
ZeroPad(s, w) == IF Len(s) >= w THEN s ELSE ZeroPad("0" \o s, w)

\* code-point order on the characters that occur in formatted dates
CharCode(c) == IF c = "-" THEN 0 ELSE 1 + DigitVal(c)

\* a < b for Python strings (lexicographic by code point)
RECURSIVE StrLess(_, _)
StrLess(a, b) ==
    IF Len(b) = 0 THEN FALSE
    ELSE IF Len(a) = 0 THEN TRUE
    ELSE IF CharAt(a, 1) = CharAt(b, 1)
         THEN StrLess(SubSeq(a, 2, Len(a)), SubSeq(b, 2, Len(b)))
         ELSE CharCode(CharAt(a, 1)) < CharCode(CharAt(b, 1))

Abs(x) == IF x < 0 THEN -x ELSE x

-----------------------------------------------------------------------------
(* Calendar: datetime's proleptic Gregorian arithmetic                     *)

IsLeap(y) == (y % 4 = 0) /\ ((y % 100 # 0) \/ (y % 400 = 0))

DaysInMonth(y, m) ==
    IF m = 2 THEN (IF IsLeap(y) THEN 29 ELSE 28)
    ELSE IF m \in {4, 6, 9, 11} THEN 30 ELSE 31

RECURSIVE DaysBeforeMonth(_, _)
DaysBeforeMonth(y, m) ==
    IF m = 1 THEN 0 ELSE DaysBeforeMonth(y, m - 1) + DaysInMonth(y, m - 1)

DaysBeforeYear(y) ==
    (y - 1) * 365 + ((y - 1) \div 4) - ((y - 1) \div 100) + ((y - 1) \div 400)

\* date(y, m, d).toordinal()
Ymd2Ord(y, m, d) == DaysBeforeYear(y) + DaysBeforeMonth(y, m) + d

RECURSIVE MonthOf(_, _, _)
MonthOf(y, m, n) ==
    \* n: zero-based day of the year; the month that holds it
    IF n < DaysBeforeMonth(y, m) + DaysInMonth(y, m) THEN m ELSE MonthOf(y, m + 1, n)

\* date.fromordinal(n) as [y, m, d]
Ord2Ymd(ord) ==
    LET n0   == ord - 1
        n400 == n0 \div 146097
        r400 == n0 % 146097
        n100 == r400 \div 36524
        r100 == r400 % 36524
        n4   == r100 \div 1461
        r4   == r100 % 1461
        n1   == r4 \div 365
        r1   == r4 % 365
        yy   == n400 * 400 + n100 * 100 + n4 * 4 + n1 + 1
    IN  IF n1 = 4 \/ n100 = 4
        THEN [y |-> yy - 1, m |-> 12, d |-> 31]
        ELSE LET mm == MonthOf(yy, 1, r1)
             IN  [y |-> yy, m |-> mm, d |-> r1 - DaysBeforeMonth(yy, mm) + 1]

\* str(date) and strftime('%Y-%m-%d'), for the four-digit years of the model
FormatYmd(y, m, d) ==
    ZeroPad(NatStr(y), 4) \o "-" \o ZeroPad(NatStr(m), 2) \o "-" \o ZeroPad(NatStr(d), 2)

FormatOrd(ord) ==
    LET t == Ord2Ymd(ord) IN FormatYmd(t.y, t.m, t.d)

\* datetime.fromisoformat(s) on a date-only string: [ok, day].  ok = FALSE
\* stands for the ValueError raised on anything that is not YYYY-MM-DD.
fromisoformat(s) ==
    IF /\ Len(s) = 10
       /\ CharAt(s, 5) = "-"
       /\ CharAt(s, 8) = "-"
       /\ AllDigits(SubSeq(s, 1, 4))
       /\ AllDigits(SubSeq(s, 6, 7))
       /\ AllDigits(SubSeq(s, 9, 10))
    THEN LET y == ParseNat(SubSeq(s, 1, 4))
             m == ParseNat(SubSeq(s, 6, 7))
             d == ParseNat(SubSeq(s, 9, 10))
         IN  IF y >= 1 /\ m \in 1..12 /\ d >= 1 /\ d <= DaysInMonth(y, m)
             THEN [ok |-> TRUE, day |-> Ymd2Ord(y, m, d)]
             ELSE [ok |-> FALSE, day |-> 0]
    ELSE [ok |-> FALSE, day |-> 0]

-----------------------------------------------------------------------------
(* Generic sequence helpers                                                *)

RECURSIVE SumSeq(_)
SumSeq(seq) == IF Len(seq) = 0 THEN 0 ELSE Head(seq) + SumSeq(Tail(seq))

\* list.sort() on integers: insertion of each element after its equals
RECURSIVE InsertInt(_, _)
InsertInt(sorted, x) ==
    IF Len(sorted) = 0 THEN <<x>>
    ELSE IF x < Head(sorted) THEN <<x>> \o sorted
    ELSE <<Head(sorted)>> \o InsertInt(Tail(sorted), x)

RECURSIVE SortInts(_)
SortInts(seq) ==
    IF Len(seq) = 0 THEN <<>>
    ELSE InsertInt(SortInts(SubSeq(seq, 1, Len(seq) - 1)), seq[Len(seq)])

-----------------------------------------------------------------------------
(* detect_recurring_transactions                                           *)

min_transactions == 10
min_interval == 25
max_interval == 35

\* desc = description.lower(); key = ' '.join(desc.split()[:3])
NormalizedKey(description) == join(" ", Take(split(lower(description)), 3))

KeyMemo == [d \in Descriptions |-> NormalizedKey(d)]

GroupKey(trans) ==
    IF trans.description \in DOMAIN KeyMemo THEN KeyMemo[trans.description]
    ELSE NormalizedKey(trans.description)

\* all(abs(amt - avg_amount) < avg_amount * 0.1 for amt in amounts), with
\* avg_amount = sum(amounts) / len(amounts).  In exact arithmetic
\*     abs(amt - S/n) < (S/n) * 0.1   iff   10 * |n*amt - S| < S.
\* Away from equality the double computation agrees with the exact one.  At
\* equality (S > 0) the outcome depends on how amt - avg and avg * 0.1 round
\* (0.90 and 1.10 fail, 2.70 and 3.30 pass): tie is that outcome.
AmountStable(amounts, tie) ==
    LET n == Len(amounts)
        S == SumSeq(amounts)
    IN  \A i \in 1..n :
            \/ 10 * Abs(n * amounts[i] - S) < S
            \/ (S > 0 /\ 10 * Abs(n * amounts[i] - S) = S /\ tie)

\* RoughlyMonthly asking 25 <= interval <= 35 of every interval
RoughlyMonthly_each_gap(dates) ==
    /\ Len(dates) > 1
    /\ \A i \in 1..(Len(dates) - 1) :
          min_interval <= dates[i + 1] - dates[i] /\ dates[i + 1] - dates[i] <= max_interval

\* len(dates) > 1 and 25 <= sum(intervals) / len(intervals) <= 35, intervals
\* being the day differences of consecutive sorted dates
RoughlyMonthly(dates) ==
    LET intervals == [i \in 1..(Len(dates) - 1) |-> dates[i + 1] - dates[i]]
    IN  /\ Len(dates) > 1
        /\ min_interval * Len(intervals) <= SumSeq(intervals)
        /\ SumSeq(intervals) <= max_interval * Len(intervals)

\* Pattern with description and category of the group's last member
Pattern_last_member(trans_list, dates) ==
    [description |-> trans_list[Len(trans_list)].description,
     amount      |-> [num |-> Abs(SumSeq([i \in 1..Len(trans_list) |-> trans_list[i].amount])),
                      den |-> Len(trans_list)],
     frequency   |-> "Monthly",
     category    |-> trans_list[Len(trans_list)].category,
     last_date   |-> FormatOrd(dates[Len(dates)]),
     occurrences |-> Len(trans_list)]

\* the entry appended to recurring for an accepted group, dates being its
\* sorted dates; amount is abs(avg_amount) = num / den cents
Pattern(trans_list, dates) ==
    [description |-> trans_list[1].description,
     amount      |-> [num |-> Abs(SumSeq([i \in 1..Len(trans_list) |-> trans_list[i].amount])),
                      den |-> Len(trans_list)],
     frequency   |-> "Monthly",
     category    |-> trans_list[1].category,
     last_date   |-> FormatOrd(dates[Len(dates)]),
     occurrences |-> Len(trans_list)]

\* position of key among the keys of grouped, 0 when absent
RECURSIVE KeyIndex(_, _, _)
KeyIndex(grouped, key, k) ==
    IF k > Len(grouped) THEN 0
    ELSE IF grouped[k].key = key THEN k
    ELSE KeyIndex(grouped, key, k + 1)

\* for trans in transactions: grouped[key].append(trans); grouped keeps its
\* keys in the order of their first transaction
RECURSIVE GroupFrom(_, _, _)
GroupFrom(transactions, i, grouped) ==
    IF i > Len(transactions) THEN grouped
    ELSE LET key == GroupKey(transactions[i])
             k   == KeyIndex(grouped, key, 1)
         IN  GroupFrom(transactions, i + 1,
                 IF k = 0
                 THEN Append(grouped, [key |-> key, trans_list |-> <<transactions[i]>>])
                 ELSE [grouped EXCEPT ![k].trans_list = Append(@, transactions[i])])

\* for desc, trans_list in grouped.items(): [ok, value], ok = FALSE when
\* fromisoformat raises on a date of a group that passed the amount test
RECURSIVE ScanGroups(_, _, _, _)
ScanGroups(grouped, k, tie, recurring) ==
    IF k > Len(grouped) THEN [ok |-> TRUE, value |-> recurring]
    ELSE LET trans_list == grouped[k].trans_list
             amounts    == [i \in 1..Len(trans_list) |-> trans_list[i].amount]
         IN  IF Len(trans_list) >= 2 /\ AmountStable(amounts, tie)
             THEN LET parsed == [i \in 1..Len(trans_list) |-> fromisoformat(trans_list[i].date)]
                  IN  IF \E i \in 1..Len(parsed) : ~parsed[i].ok
                      THEN [ok |-> FALSE, value |-> <<>>]
                      ELSE LET dates == SortInts([i \in 1..Len(parsed) |-> parsed[i].day])
                           IN  ScanGroups(grouped, k + 1, tie,
                                   IF RoughlyMonthly(dates)
                                   THEN Append(recurring, Pattern(trans_list, dates))
                                   ELSE recurring)
             ELSE ScanGroups(grouped, k + 1, tie, recurring)

\* detect_recurring_transactions without the test of len(transactions)
detect_without_minimum(data, tie) ==
    ScanGroups(GroupFrom(data.transactions, 1, <<>>), 1, tie, <<>>)

detect_recurring_transactions(data, tie) ==
    LET transactions == data.transactions
    IN  IF Len(transactions) < min_transactions
        THEN [ok |-> TRUE, value |-> <<>>]
        ELSE ScanGroups(GroupFrom(transactions, 1, <<>>), 1, tie, <<>>)

-----------------------------------------------------------------------------
(* auto_categorize_spending                                                *)

window_days == 30
large_deposit == 10000      \* amount > 100
medium_deposit == 5000      \* amount > 50

grocery_keywords == <<"grocery", "market", "food", "walmart", "target", "costco",
                      "whole foods", "aldi", "kroger", "publix">>
bill_keywords == <<"electric", "water", "gas", "internet", "phone", "insurance",
                   "rent", "mortgage", "utilities", "cable">>
income_keywords == <<"payroll", "salary", "deposit", "payment", "direct dep",
                     "paycheck", "wages", "employer">>
ignore_keywords == <<"round-up", "round up", "transfer", "refund", "reversal", "credit">>

\* any(keyword in text for keyword in keywords)
AnyKeyword(keywords, text) == \E k \in 1..Len(keywords) : Contains(text, keywords[k])

KeywordMemo ==
    [q \in {grocery_keywords, bill_keywords, income_keywords, ignore_keywords,
            <<"transfer">>, <<"refund">>}
           \X {LowerOf(s) : s \in Texts} |-> AnyKeyword(q[1], q[2])]

AnyIn(keywords, text) ==
    IF <<keywords, text>> \in DOMAIN KeywordMemo THEN KeywordMemo[<<keywords, text>>]
    ELSE AnyKeyword(keywords, text)

\* Skipped with "continue" in the except clause: an unparseable date is left out
Skipped_unparsed(trans, at) ==
    LET trans_date == fromisoformat(trans.date)
    IN  \/ ~trans_date.ok
        \/ trans_date.day < at.day - window_days
        \/ (trans_date.day = at.day - window_days /\ 0 < at.tod)

\* The test that sends a transaction to "continue" before it is looked at:
\* trans_date < thirty_days_ago, where trans_date is midnight of the parsed
\* date and thirty_days_ago = now - timedelta(days=30).  A date that does not
\* parse raises inside the try, and the bare except lets the transaction in.
Skipped(trans, at) ==
    LET trans_date == fromisoformat(trans.date)
    IN  /\ trans_date.ok
        /\ \/ trans_date.day < at.day - window_days
           \/ (trans_date.day = at.day - window_days /\ 0 < at.tod)

\* BucketOf with the bill keywords tried before the grocery keywords
BucketOf_bills_first(trans) ==
    LET amount   == trans.amount
        desc     == lower(trans.description)
        category == lower(trans.category)
    IN  IF amount > 0
        THEN IF AnyIn(ignore_keywords, desc) THEN "none"
             ELSE IF AnyIn(income_keywords, desc) \/ amount > medium_deposit THEN "income"
             ELSE "none"
        ELSE IF amount < 0
        THEN IF AnyIn(bill_keywords, desc) \/ AnyIn(bill_keywords, category) THEN "bills"
             ELSE IF AnyIn(grocery_keywords, desc) \/ AnyIn(grocery_keywords, category)
             THEN "groceries"
             ELSE "miscellaneous"
        ELSE "none"

\* The bucket the if/elif chain adds a considered transaction to ("none":
\* the chain adds it to no bucket)
BucketOf(trans) ==
    LET amount   == trans.amount
        desc     == lower(trans.description)
        category == lower(trans.category)
    IN  IF amount > 0
        THEN IF AnyIn(ignore_keywords, desc) THEN "none"
             ELSE IF AnyIn(income_keywords, desc) THEN "income"
             ELSE IF amount > large_deposit THEN "income"
             ELSE IF /\ amount > medium_deposit
                     /\ ~AnyIn(<<"transfer">>, desc)
                     /\ ~AnyIn(<<"refund">>, desc) THEN "income"
             ELSE "none"
        ELSE IF amount < 0
        THEN IF AnyIn(grocery_keywords, desc) \/ AnyIn(grocery_keywords, category)
             THEN "groceries"
             ELSE IF AnyIn(bill_keywords, desc) \/ AnyIn(bill_keywords, category)
             THEN "bills"
             ELSE "miscellaneous"
        ELSE "none"

\* AddTo without abs(): categorized[bucket] += amount
AddTo_signed(categorized, bucket, amount) ==
    IF bucket = "none" THEN categorized
    ELSE [categorized EXCEPT ![bucket] = @ + amount]

\* categorized[bucket] += abs(amount)
AddTo(categorized, bucket, amount) ==
    IF bucket = "none" THEN categorized
    ELSE [categorized EXCEPT ![bucket] = @ + Abs(amount)]

RECURSIVE CategorizeFrom(_, _, _, _)
CategorizeFrom(transactions, i, at, categorized) ==
    IF i > Len(transactions) THEN categorized
    ELSE CategorizeFrom(transactions, i + 1, at,
             IF Skipped(transactions[i], at) THEN categorized
             ELSE AddTo(categorized, BucketOf(transactions[i]), transactions[i].amount))

auto_categorize_spending(data, at) ==
    CategorizeFrom(data.transactions, 1, at,
        [groceries |-> 0, savings |-> 0, miscellaneous |-> 0, bills |-> 0, income |-> 0])

-----------------------------------------------------------------------------
(* project_future_bills                                                    *)

period_days == 30
fallback_day == 28

\* SortByDate left out: the projections stay in the order they were appended
SortByDate_none(seq) == seq

\* projections.sort(key=lambda x: x['date']): stable, by the date string
RECURSIVE InsertByDate(_, _)
InsertByDate(sorted, x) ==
    IF Len(sorted) = 0 THEN <<x>>
    ELSE IF StrLess(x.date, Head(sorted).date) THEN <<x>> \o sorted
    ELSE <<Head(sorted)>> \o InsertByDate(Tail(sorted), x)

RECURSIVE SortByDate(_)
SortByDate(seq) ==
    IF Len(seq) = 0 THEN <<>>
    ELSE InsertByDate(SortByDate(SubSeq(seq, 1, Len(seq) - 1)), seq[Len(seq)])

\* future_date.replace(day=due_day), or replace(day=28) on ValueError,
\* formatted by strftime('%Y-%m-%d')
BillDate(future_day, due_day) ==
    LET f == Ord2Ymd(future_day)
    IN  IF due_day >= 1 /\ due_day <= DaysInMonth(f.y, f.m)
        THEN FormatYmd(f.y, f.m, due_day)
        ELSE FormatYmd(f.y, f.m, fallback_day)

\* datetime.replace takes its day as a C int
c_int_max == 2147483647

\* A Python integer beyond the C int range is held as the nearest C int in
\* due_day together with what it exceeds it by in due_day_excess; a due_day
\* within the range has no due_day_excess.
Excess(bill) == IF "due_day_excess" \in DOMAIN bill THEN bill.due_day_excess ELSE 0

\* future_date.replace(day=due_day) raises OverflowError, which the except
\* ValueError of line 534 does not catch
BillRaises(bill) == Excess(bill) # 0

\* the three entries of one tracked bill (month_offset in range(3))
BillProjections(bill, at) ==
    [k \in 1..3 |->
        [name   |-> bill.name,
         amount |-> [num |-> bill.amount, den |-> 1],
         date   |-> BillDate(at.day + period_days * (k - 1), bill.due_day),
         type   |-> "manual_bill"]]

\* RecurringProjections with month_offset in range(3), as in the loop of the bills
RecurringProjections_from_zero(rec) ==
    [k \in 1..3 |->
        [name   |-> rec.description,
         amount |-> rec.amount,
         date   |-> FormatOrd(fromisoformat(rec.last_date).day + period_days * (k - 1)),
         type   |-> "detected_recurring"]]

\* the three entries of one detected pattern (month_offset in range(1, 4))
RecurringProjections(rec) ==
    [k \in 1..3 |->
        [name   |-> rec.description,
         amount |-> rec.amount,
         date   |-> FormatOrd(fromisoformat(rec.last_date).day + period_days * k),
         type   |-> "detected_recurring"]]

RECURSIVE Flatten(_)
Flatten(seqs) == IF Len(seqs) = 0 THEN <<>> ELSE Head(seqs) \o Flatten(Tail(seqs))

\* [ok, value]: ok = FALSE when the call of detect_recurring_transactions
\* raises, or the replace of a bill's date does
project_future_bills(data, at, tie) ==
    LET bills     == data.bills
        recurring == detect_recurring_transactions(data, tie)
        projections ==
            Flatten([b \in 1..Len(bills) |-> BillProjections(bills[b], at)])
            \o Flatten([r \in 1..Len(recurring.value) |->
                           RecurringProjections(recurring.value[r])])
    IN  IF ~recurring.ok \/ \E b \in 1..Len(bills) : BillRaises(bills[b])
        THEN [ok |-> FALSE, value |-> <<>>]
        ELSE [ok |-> TRUE, value |-> SortByDate(projections)]

-----------------------------------------------------------------------------
(* The record store and the Plaid sync                                     *)

\* Python's None, for a cursor or last_sync that was never set
None == "None"

max_iterations == 20

\* Bounds of the remote's behaviour explored by the sync specification
MaxPage == 2        \* transactions in one page of sync_response['added']
MaxCalls == 1       \* sync_transactions requests in one behaviour

\* str(-float(amount)) of an amount of whole cents: "15.99", "-5.5", "12.0"
FloatStr(cents) ==
    LET units == Abs(cents) \div 100
        frac  == Abs(cents) % 100
    IN  (IF cents < 0 THEN "-" ELSE "")
        \o NatStr(units) \o "."
        \o (IF frac % 10 = 0 THEN NatStr(frac \div 10) ELSE ZeroPad(NatStr(frac), 2))

\* f"{t['date']}_{t['description']}_{t['amount']}"
KeyOf(t) == t.date \o "_" \o t.description \o "_" \o FloatStr(t.amount)

\* the dict built from one element of sync_response['added']; Plaid reports
\* money leaving the account as a positive amount
Transaction(trans) ==
    [date          |-> FormatYmd(trans.date.y, trans.date.m, trans.date.d),
     amount        |-> -trans.amount,
     description   |-> trans.name,
     category      |-> IF Len(trans.category) > 0 THEN trans.category[1] ELSE "Uncategorized",
     merchant_name |-> trans.name]

\* AddPage with existing_keys built once, before the loop over the page
AddPage_stale(transactions, added) ==
    LET existing_keys == {KeyOf(transactions[i]) : i \in 1..Len(transactions)}
        fresh == SelectSeq([i \in 1..Len(added) |-> Transaction(added[i])],
                           LAMBDA t : KeyOf(t) \notin existing_keys)
    IN  transactions \o fresh

\* the loop over sync_response['added']: a transaction is appended unless its
\* key is among the keys of the transactions already in data
RECURSIVE AddPage(_, _)
AddPage(transactions, added) ==
    IF Len(added) = 0 THEN transactions
    ELSE LET transaction   == Transaction(Head(added))
             key           == KeyOf(transaction)
             existing_keys == [i \in 1..Len(transactions) |-> KeyOf(transactions[i])]
         IN  AddPage(IF \E i \in 1..Len(existing_keys) : existing_keys[i] = key
                     THEN transactions
                     ELSE Append(transactions, transaction),
                     Tail(added))

\* what the remote may hold (date: a datetime.date): two charges of one day
\* and name that differ in amount
RemoteTransactions ==
    { [date |-> [y |-> 2024, m |-> 1, d |-> 15], amount |-> 1599, name |-> "Netflix",
       category |-> <<"Service", "Subscription">>],
      [date |-> [y |-> 2024, m |-> 1, d |-> 15], amount |-> 250, name |-> "Netflix",
       category |-> <<>>] }

RECURSIVE SeqsUpTo(_, _)
SeqsUpTo(S, n) ==
    IF n = 0 THEN {<<>>}
    ELSE LET shorter == SeqsUpTo(S, n - 1)
         IN  shorter \cup {Append(q, x) : q \in {r \in shorter : Len(r) = n - 1}, x \in S}

Pages == SeqsUpTo(RemoteTransactions, MaxPage)
\* next_cursor is an opaque non-empty string: the code only stores it and
\* tests it for truth (line 194)
Cursors == {"c1"}

Moment(y, m, d, tod) == [day |-> Ymd2Ord(y, m, d), tod |-> tod]

PlaidItem(name) ==
    [institution_name |-> name, access_token |-> "access-" \o name,
     item_id |-> "item-" \o name, cursor |-> None, last_sync |-> None]

\* the record set load_data returns when DATA_FILE is missing or unreadable
EmptyStore ==
    [income |-> <<>>, bills |-> <<>>,
     budget |-> [groceries |-> 0, savings |-> 0, miscellaneous |-> 0],
     transactions |-> <<>>, debt |-> <<>>, plaid_items |-> <<>>,
     recurring_patterns |-> <<>>, auto_categorized |-> [rules |-> {}],
     projected_bills |-> <<>>]

load_data == store

\* no bills POST is between its load_data and its save_data
NoRequest == [pc |-> "idle"]

NoResult == [op |-> "none", ok |-> TRUE, recurring |-> <<>>,
             categorized |-> [groceries |-> 0, savings |-> 0, miscellaneous |-> 0,
                              bills |-> 0, income |-> 0],
             projections |-> <<>>]

\* What comes from outside.  From the remote: the pages, has_more values and
\* cursors plaid_client answers with.  From the clients: how many times
\* /api/plaid/sync_transactions is requested, the JSON bodies POSTed to the data
\* routes, the item_ids asked to be disconnected, and room, the length up to
\* which the clients fill a list.  Here nothing comes.
NoRemote ==
    [pages |-> {}, more |-> {}, cursors |-> {}, calls |-> 0,
     income |-> {}, bills |-> {}, debt |-> {}, budget |-> {}, patterns |-> {},
     item_ids |-> {}, room |-> 0]

\* request: the cursor of the latest TransactionsSyncRequest, None for a
\* request built without one; response: has_more and next_cursor of the latest
\* sync_response; ended: how the loop of each item handled so far ended
Idle == [pc |-> "idle", data |-> EmptyStore, item |-> 0, cursor |-> None,
         has_more |-> FALSE, iterations |-> 0, total_imported |-> 0,
         errors |-> <<>>, skipped |-> FALSE, calls |-> 0,
         request |-> None,
         response |-> [has_more |-> FALSE, next_cursor |-> None],
         ended |-> <<>>]

\* data = load_data(); total_imported = 0; errors = []
SyncStart ==
    /\ sync.pc = "idle"
    /\ sync.calls < env.calls
    /\ sync' = [Idle EXCEPT !.pc = "for", !.data = load_data, !.item = 1,
                            !.calls = sync.calls + 1]
    /\ UNCHANGED <<store, now, result, env, held>>

\* for item in data['plaid_items']: the next item's cursor is read and the
\* paging loop of that item is set up; after the last item, on to save_data
SyncNextItem ==
    /\ sync.pc = "for"
    /\ IF sync.item <= Len(sync.data.plaid_items)
       THEN sync' = [sync EXCEPT !.pc = "while",
                                 !.cursor = sync.data.plaid_items[sync.item].cursor,
                                 !.has_more = TRUE,
                                 !.iterations = 0]
       ELSE sync' = [sync EXCEPT !.pc = "save"]
    /\ UNCHANGED <<store, now, result, env, held>>

\* the while condition without the cap on iterations
Looping_uncapped(s) == s.has_more

\* while has_more and iterations < max_iterations
Looping(s) == s.has_more /\ s.iterations < max_iterations

\* if cursor: the request carries the cursor; else: it is built without one
RequestCursor(cursor) == IF cursor # None /\ cursor # "" THEN cursor ELSE None

\* one turn of the while loop: plaid_client.transactions_sync answers with a
\* page, whose transactions are merged into data
SyncPage ==
    /\ sync.pc = "while"
    /\ Looping(sync)
    /\ \E added \in env.pages :
          LET merged == AddPage(sync.data.transactions, added)
              grown  == Len(merged) - Len(sync.data.transactions)
              after  == [sync EXCEPT !.iterations = @ + 1,
                                     !.request = RequestCursor(sync.cursor),
                                     !.data.transactions = merged,
                                     !.total_imported = @ + grown,
                                     !.skipped = @ \/ grown < Len(added)]
          IN  \E more \in env.more, next_cursor \in env.cursors :
                  sync' = [after EXCEPT !.response = [has_more |-> more,
                                                      next_cursor |-> next_cursor],
                                        !.has_more = more,
                                        !.cursor = next_cursor]
    /\ UNCHANGED <<store, now, result, env, held>>

\* SyncFault leaving the for loop: the try around the whole loop
SyncFault_aborting ==
    /\ sync.pc = "while"
    /\ Looping(sync)
    /\ sync' = [sync EXCEPT !.pc = "save",
                            !.iterations = @ + 1,
                            !.request = RequestCursor(sync.cursor),
                            !.errors = Append(@, sync.data.plaid_items[sync.item].institution_name),
                            !.ended = Append(@, [fault |-> TRUE, next_cursor |-> None]),
                            !.item = @ + 1]
    /\ UNCHANGED <<store, now, result, env, held>>

\* SyncFault in which the except clause also stores the position reached
SyncFault_cursor_stored ==
    /\ sync.pc = "while"
    /\ Looping(sync)
    /\ sync' = [sync EXCEPT !.pc = "for",
                            !.iterations = @ + 1,
                            !.request = RequestCursor(sync.cursor),
                            !.errors = Append(@, sync.data.plaid_items[sync.item].institution_name),
                            !.data.plaid_items[sync.item].cursor = sync.cursor,
                            !.data.plaid_items[sync.item].last_sync = FormatOrd(now.day),
                            !.ended = Append(@, [fault |-> TRUE, next_cursor |-> None]),
                            !.item = @ + 1]
    /\ UNCHANGED <<store, now, result, env, held>>

\* plaid_client.transactions_sync raises: the except clause records the error
\* and the for loop goes on to the next item
SyncFault ==
    /\ sync.pc = "while"
    /\ Looping(sync)
    /\ sync' = [sync EXCEPT !.pc = "for",
                            !.iterations = @ + 1,
                            !.request = RequestCursor(sync.cursor),
                            !.errors = Append(@, sync.data.plaid_items[sync.item].institution_name),
                            !.ended = Append(@, [fault |-> TRUE, next_cursor |-> None]),
                            !.item = @ + 1]
    /\ UNCHANGED <<store, now, result, env, held>>

\* SyncItemDone that leaves the item's cursor as it was loaded
SyncItemDone_cursor_kept ==
    /\ sync.pc = "while"
    /\ ~Looping(sync)
    /\ sync' = [sync EXCEPT !.pc = "for",
                            !.data.plaid_items[sync.item].last_sync = FormatOrd(now.day),
                            !.ended = Append(@, [fault |-> FALSE,
                                                 next_cursor |-> sync.response.next_cursor]),
                            !.item = @ + 1]
    /\ UNCHANGED <<store, now, result, env, held>>

\* the while loop is over: item['cursor'] = cursor; item['last_sync'] = now
SyncItemDone ==
    /\ sync.pc = "while"
    /\ ~Looping(sync)
    /\ sync' = [sync EXCEPT !.pc = "for",
                            !.data.plaid_items[sync.item].cursor = sync.cursor,
                            !.data.plaid_items[sync.item].last_sync = FormatOrd(now.day),
                            !.ended = Append(@, [fault |-> FALSE,
                                                 next_cursor |-> sync.response.next_cursor]),
                            !.item = @ + 1]
    /\ UNCHANGED <<store, now, result, env, held>>

\* save_data(data) and the JSON response
SyncSave ==
    /\ sync.pc = "save"
    /\ store' = sync.data
    /\ sync' = [sync EXCEPT !.pc = "idle"]
    /\ result' = [op |-> "sync_transactions", status |-> 200,
                  body |-> [success |-> TRUE, imported |-> sync.total_imported,
                            errors |-> sync.errors]]
    /\ UNCHANGED <<now, env, held>>

sync_transactions ==
    SyncStart \/ SyncNextItem \/ SyncPage \/ SyncFault \/ SyncItemDone \/ SyncSave

\* A store with two linked banks and nothing imported yet, or with one
\* transaction already on file
InitialStores ==
    LET items == <<PlaidItem("BankA"), PlaidItem("BankB")>>
    IN  { [EmptyStore EXCEPT !.plaid_items = items, !.transactions = txs] :
              txs \in {<<>>} \cup {<<Transaction(r)>> : r \in RemoteTransactions} }

Init ==
    /\ store \in InitialStores
    /\ now = Moment(2024, 3, 20, 1)
    /\ sync = Idle
    /\ env = [NoRemote EXCEPT !.pages = Pages, !.more = BOOLEAN, !.cursors = Cursors,
                               !.calls = MaxCalls]
    /\ result = NoResult
    /\ held = NoRequest

Next == sync_transactions

Spec == Init /\ [][Next]_vars

\* Paging alone: the pages bring nothing, so that only has_more, the faults
\* and the count of requests vary
InitPaging ==
    /\ store = [EmptyStore EXCEPT !.plaid_items = <<PlaidItem("BankA"), PlaidItem("BankB")>>]
    /\ now = Moment(2024, 3, 20, 1)
    /\ sync = Idle
    /\ env = [NoRemote EXCEPT !.pages = {<<>>}, !.more = BOOLEAN, !.cursors = Cursors,
                               !.calls = MaxCalls]
    /\ result = NoResult
    /\ held = NoRequest

\* a request that has begun runs on: the remote answers or raises, and the
\* view function goes from one statement to the next
FairSpec == InitPaging /\ [][Next]_vars /\ WF_vars(Next)

\* Resumption across calls: the pages bring nothing, the remote names its
\* position by one of two cursors or by the empty string
MaxResumes == 2     \* sync_transactions requests in one behaviour

ResumeCursors == {"", "c1", "c2"}

InitResume ==
    /\ store = [EmptyStore EXCEPT !.plaid_items = <<PlaidItem("BankA"), PlaidItem("BankB")>>]
    /\ now = Moment(2024, 3, 20, 1)
    /\ sync = Idle
    /\ env = [NoRemote EXCEPT !.pages = {<<>>}, !.more = BOOLEAN, !.cursors = ResumeCursors,
                               !.calls = MaxResumes]
    /\ result = NoResult
    /\ held = NoRequest

SpecResume == InitResume /\ [][Next]_vars

\* A fault after pages: one linked account that was synced before (or never),
\* pages that bring transactions, and two calls
SyncedBefore ==
    { PlaidItem("BankA"),
      [PlaidItem("BankA") EXCEPT !.cursor = "", !.last_sync = FormatYmd(2024, 3, 1)],
      [PlaidItem("BankA") EXCEPT !.cursor = "c0", !.last_sync = FormatYmd(2024, 3, 1)] }

InitFault ==
    /\ store \in { [EmptyStore EXCEPT !.plaid_items = <<item>>] : item \in SyncedBefore }
    /\ now = Moment(2024, 3, 20, 1)
    /\ sync = Idle
    /\ env = [NoRemote EXCEPT !.pages = Pages, !.more = BOOLEAN, !.cursors = Cursors,
                               !.calls = MaxResumes]
    /\ result = NoResult
    /\ held = NoRequest

SpecFault == InitFault /\ [][Next]_vars

-----------------------------------------------------------------------------
(* The analysis passes applied to a record set                             *)

\* recurring = detect_recurring_transactions(data)
DetectPass ==
    /\ \E tie \in BOOLEAN :
          LET r == detect_recurring_transactions(load_data, tie)
          IN  result' = [NoResult EXCEPT !.op = "detect", !.ok = r.ok, !.recurring = r.value]
    /\ UNCHANGED <<store, now, sync, env, held>>

\* one turn of the loop over grouped.items() in a pass that got as far as the
\* loop: the amount test, the parsing of the dates and the test of the gaps,
\* applied to one group; recurring is what the turn appends
DetectGroup ==
    /\ Len(load_data.transactions) >= min_transactions
    /\ \E tie \in BOOLEAN, grouped \in {GroupFrom(load_data.transactions, 1, <<>>)} :
          \E k \in 1..Len(grouped) :
              LET trans_list == grouped[k].trans_list
                  amounts    == [i \in 1..Len(trans_list) |-> trans_list[i].amount]
              IN  \E r \in {ScanGroups(<<grouped[k]>>, 1, tie, <<>>)} :
                      result' = [op |-> "group", key |-> grouped[k].key,
                                 stable |-> Len(trans_list) >= 2 /\ AmountStable(amounts, tie),
                                 ok |-> r.ok, recurring |-> r.value]
    /\ UNCHANGED <<store, now, sync, env, held>>

\* categorized = auto_categorize_spending(data)
CategorizePass ==
    /\ result' = [NoResult EXCEPT !.op = "categorize",
                                  !.categorized = auto_categorize_spending(load_data, now)]
    /\ UNCHANGED <<store, now, sync, env, held>>

\* projections = project_future_bills(data)
ProjectPass ==
    /\ \E tie \in BOOLEAN :
          LET r == project_future_bills(load_data, now, tie)
          IN  result' = [NoResult EXCEPT !.op = "project", !.ok = r.ok, !.projections = r.value]
    /\ UNCHANGED <<store, now, sync, env, held>>

-----------------------------------------------------------------------------
(* The analysis endpoints: GET /api/dashboard and GET /api/analyze_spending *)

\* a JSON object with the given keys; val holds the values of the keys, and
\* is 0 elsewhere
Dict(categorized) == [keys |-> DOMAIN categorized, val |-> categorized]

\* the empty JSON object {}
EmptyDict ==
    [keys |-> {},
     val  |-> [groceries |-> 0, savings |-> 0, miscellaneous |-> 0, bills |-> 0, income |-> 0]]

get_dashboard_stats(data) ==
    LET income   == SumSeq([i \in 1..Len(data.income) |-> data.income[i].amount])
        bills    == SumSeq([b \in 1..Len(data.bills) |-> data.bills[b].amount])
        debt_min == SumSeq([d \in 1..Len(data.debt) |-> data.debt[d].min_payment])
        debt     == SumSeq([d \in 1..Len(data.debt) |-> data.debt[d].balance])
        groceries == data.budget.groceries
        savings   == data.budget.savings
        misc      == data.budget.miscellaneous
        total_alloc == bills + debt_min + groceries + savings + misc
    IN  [income |-> income, bills |-> bills, debt_min |-> debt_min, debt |-> debt,
         groceries |-> groceries, savings |-> savings, misc |-> misc,
         total_alloc |-> total_alloc, remaining |-> income - total_alloc]

\* data.get('transactions', [])[-10:][::-1]
recent_transactions(data) ==
    LET n    == Len(data.transactions)
        last == IF n > 10 THEN SubSeq(data.transactions, n - 9, n) ELSE data.transactions
    IN  [i \in 1..Len(last) |-> last[Len(last) + 1 - i]]

\* the JSON body of GET /api/dashboard.  The three passes run under one try:
\* when one of them raises, the except clause sets all three results to
\* their empty values.  The passes are deterministic, so both calls of the
\* detector have the same outcome (tie).
DashboardBody(data, at, tie) ==
    LET recurring   == detect_recurring_transactions(data, tie)
        categorized == auto_categorize_spending(data, at)
        projections == project_future_bills(data, at, tie)
        raised      == ~recurring.ok \/ ~projections.ok
    IN  [op |-> "get_dashboard", status |-> 200,
         stats |-> get_dashboard_stats(data),
         plaid_items |-> data.plaid_items,
         recent_transactions |-> recent_transactions(data),
         recurring_bills |-> IF raised THEN <<>> ELSE recurring.value,
         categorized_spending |-> IF raised THEN EmptyDict ELSE Dict(categorized),
         projected_bills |-> IF raised THEN <<>> ELSE projections.value]

\* get_dashboard that keeps what it derived: the patterns and projections
\* are written to the record set, which is saved
get_dashboard_saving ==
    /\ \E tie \in BOOLEAN :
          LET body == DashboardBody(load_data, now, tie)
          IN  /\ result' = body
              /\ store' = [store EXCEPT !.recurring_patterns = body.recurring_bills,
                                        !.projected_bills = body.projected_bills]
    /\ UNCHANGED <<now, sync, env, held>>

get_dashboard ==
    /\ \E tie \in BOOLEAN : result' = DashboardBody(load_data, now, tie)
    /\ UNCHANGED <<store, now, sync, env, held>>

\* no try: an exception of a pass leaves the view function and Flask answers
\* 500 Internal Server Error
analyze_spending ==
    /\ \E tie \in BOOLEAN :
          LET data        == load_data
              recurring   == detect_recurring_transactions(data, tie)
              categorized == auto_categorize_spending(data, now)
              projections == project_future_bills(data, now, tie)
          IN  IF ~recurring.ok \/ ~projections.ok
              THEN result' = [op |-> "analyze_spending", status |-> 500]
              ELSE result' = [op |-> "analyze_spending", status |-> 200,
                              recurring_bills |-> recurring.value,
                              categorized_spending |-> Dict(categorized),
                              projected_bills |-> projections.value]
    /\ UNCHANGED <<store, now, sync, env, held>>

-----------------------------------------------------------------------------
(* Record sets the detector is applied to                                  *)

MaxGroup == 3       \* members of the group under test

Tx(date, amount, description, category) ==
    [date |-> date, amount |-> amount, description |-> description,
     category |-> category, merchant_name |-> description]

\* Unrelated history: a salary paid twice 30 days apart (a recurring credit)
\* and six one-off charges
Fillers ==
    << Tx("2024-01-31", 120000, "Acme Corp Payroll", "Income"),
       Tx("2024-03-01", 120000, "Acme Corp Payroll", "Income"),
       Tx("2024-01-03", -4250, "Shell Gas Station", "Travel"),
       Tx("2024-01-09", -480, "Coffee Shop", "Food and Drink"),
       Tx("2024-01-20", -6120, "City Water Utility", "Service"),
       Tx("2024-02-02", -25000, "Whole Foods Market", "Shops"),
       Tx("2024-02-11", -1999, "Amazon Purchase", "Shops"),
       Tx("2024-02-27", -3500, "Gym Membership", "Recreation") >>

FillerCounts == {0, 7, 8}

\* two spellings with the same first three lower-cased words
GroupDescription(variant, i) ==
    IF variant = 1 THEN "Netflix Subscription"
    ELSE IF i % 2 = 1 THEN "Netflix Subscription Monthly 01"
    ELSE "NETFLIX  subscription\tmonthly 02"

\* amounts of a pair: equal ones of either sign, and pairs that differ by
\* 9.9%, 10% and 20% of their mean; larger groups take the first four
PairAmounts == {-1599, 1599, 9500, 10500, 9000, 11000, 9505, 10495}
GroupAmounts == {-1599, 1599, 9500, 10500}
SteadyAmounts == {-1599, 1599}

\* 2024-01-15 and the days 24, 25, 30, 35, 36, 61 and 71 days after it, and
\* a date that does not parse
GroupDates == {"2024-01-15", "2024-02-08", "2024-02-09", "2024-02-14", "2024-02-19",
               "2024-02-20", "2024-03-16", "2024-03-26", "2024-02-30"}

\* groups whose members lie 30 days apart, with any amounts
SpacedGroups ==
    UNION { { [i \in 1..n |-> Tx(FormatOrd(Ymd2Ord(2024, 1, 15) + period_days * (i - 1)),
                                 amounts[i], GroupDescription(variant, i), "Service")] :
                  amounts \in [1..n -> IF n = 2 THEN PairAmounts ELSE GroupAmounts],
                  variant \in {1, 2} } :
            n \in 2..MaxGroup }

\* groups of one description and amount, with any distinct dates in any order
DatedGroups ==
    UNION { { [i \in 1..n |-> Tx(dates[i], amount, GroupDescription(1, i), "Service")] :
                  dates \in {d \in [1..n -> GroupDates] :
                                \A i, j \in 1..n : i # j => d[i] # d[j]},
                  amount \in SteadyAmounts } :
            n \in 2..MaxGroup }

\* groups of one amount whose dates are unevenly spaced (gaps of 1 and 59
\* days, of 30 and 1), repeated (0 and 61, 0 alone), or stored latest first
\* under descriptions and categories that differ
UnevenGroups ==
    LET G(dates) == [i \in 1..Len(dates) |-> Tx(dates[i], 1599, "Netflix Subscription", "Service")]
    IN  { G(<<"2024-01-15", "2024-01-16", "2024-03-15">>),
          G(<<"2024-01-15", "2024-02-14", "2024-02-15">>),
          G(<<"2024-03-16", "2024-01-15", "2024-01-15">>),
          G(<<"2024-01-15", "2024-01-15">>),
          << Tx("2024-02-14", 1599, "NETFLIX  subscription\tmonthly 02", "Entertainment"),
             Tx("2024-01-15", 1599, "Netflix Subscription Monthly 01", "Service") >> }

DetectInputs ==
    { SubSeq(Fillers, 1, f) \o group :
          f \in FillerCounts, group \in SpacedGroups \cup DatedGroups \cup UnevenGroups }

InitDetect ==
    /\ store \in { [EmptyStore EXCEPT !.transactions = history] : history \in DetectInputs }
    /\ now = Moment(2024, 3, 20, 1)
    /\ sync = Idle
    /\ env = NoRemote
    /\ result = NoResult
    /\ held = NoRequest

SpecDetect == InitDetect /\ [][DetectPass]_vars

\* The turns of the detector's loop, on the histories long enough to reach it
InitGroup ==
    /\ store \in { [EmptyStore EXCEPT !.transactions = Fillers \o group] :
                     group \in {g \in DatedGroups : g[1].amount > 0} \cup UnevenGroups }
    /\ now = Moment(2024, 3, 20, 1)
    /\ sync = Idle
    /\ env = NoRemote
    /\ result = NoResult
    /\ held = NoRequest

SpecGroup == InitGroup /\ [][DetectPass \/ DetectGroup]_vars

-----------------------------------------------------------------------------
(* Record sets the categorizer is applied to                               *)

\* the current moment: 2024-03-20, at midnight or later in the day
CategorizeMoments == {Moment(2024, 3, 20, 0), Moment(2024, 3, 20, 1)}

\* 31, 30 and 29 days before 2024-03-20, that day, the day after, and a date
\* that does not parse
CategorizeDates == {"2024-02-18", "2024-02-19", "2024-02-20", "2024-03-20", "2024-03-21",
                    "2024-02-30"}

CategorizeDescriptions ==
    {"Whole Foods Market", "Acme Corp Payroll", "Round-Up Transfer", "Payroll Refund",
     "Costco Gas", "City Water Utility", "Coffee Shop", "Credit Card Payment"}

CategorizeCategories == {"Uncategorized", "Food and Drink", "Utilities"}

CategorizeAmounts == {-25000, 0, 500, 5000, 5001, 10000, 10001, 120000}

\* what is on file before the transaction under test: nothing, or a grocery
\* purchase and a salary of the last 30 days
RecentHistories ==
    { <<>>,
      << Tx("2024-03-10", -4000, "Whole Foods Market", "Shops"),
         Tx("2024-03-15", 120000, "Acme Corp Payroll", "Income") >> }

InitCategorize ==
    /\ store \in { [EmptyStore EXCEPT !.transactions =
                       Append(before, Tx(date, amount, description, category))] :
                     before \in RecentHistories, date \in CategorizeDates,
                     amount \in CategorizeAmounts, description \in CategorizeDescriptions,
                     category \in CategorizeCategories }
    /\ now \in CategorizeMoments
    /\ sync = Idle
    /\ env = NoRemote
    /\ result = NoResult
    /\ held = NoRequest

SpecCategorize == InitCategorize /\ [][CategorizePass]_vars

-----------------------------------------------------------------------------
(* Record sets the projector is applied to                                 *)

MaxBills == 2       \* tracked bills

Bill(name, amount, due_day) ==
    [name |-> name, amount |-> amount, due_day |-> due_day, category |-> "Other"]

BillChoices ==
    {Bill("Rent", 150000, 1), Bill("Phone", 6500, 15), Bill("Loan", 30000, 29),
     Bill("Insurance", 12000, 31)}

ProjectMoments ==
    {Moment(2023, 12, 31, 1), Moment(2024, 1, 31, 1), Moment(2024, 3, 20, 0),
     Moment(2024, 9, 15, 1)}

\* no transactions; the unrelated history with a recurring credit, alone,
\* with a second recurring credit, and with a group whose date does not parse
ProjectHistories ==
    { <<>>,
      Fillers \o << Tx("2024-01-15", -1599, "Netflix Subscription", "Service"),
                    Tx("2024-02-14", -1599, "Netflix Subscription", "Service") >>,
      Fillers \o << Tx("2024-01-15", 1599, "Netflix Subscription", "Service"),
                    Tx("2024-02-14", 1599, "Netflix Subscription", "Service") >>,
      Fillers \o << Tx("2024-02-30", 1599, "Netflix Subscription", "Service"),
                    Tx("2024-02-14", 1599, "Netflix Subscription", "Service") >> }

InitProject ==
    /\ store \in { [EmptyStore EXCEPT !.transactions = history, !.bills = bills] :
                     history \in ProjectHistories, bills \in SeqsUpTo(BillChoices, MaxBills) }
    /\ now \in ProjectMoments
    /\ sync = Idle
    /\ env = NoRemote
    /\ result = NoResult
    /\ held = NoRequest

SpecProject == InitProject /\ [][ProjectPass]_vars

\* One tracked bill of any due_day: below 1, within every month, within some
\* months only, above 31, and at and beyond the largest C int
DueBills ==
    { Bill("Gym", 3500, due_day) : due_day \in {-1, 0, 1, 28, 29, 30, 31, 32, c_int_max} }
    \cup { [name |-> "Gym", amount |-> 3500, due_day |-> c_int_max, due_day_excess |-> 1,
            category |-> "Other"] }

\* today in months of 31, 30, 29 and 28 days, and at the end of January
DueMoments ==
    {Moment(2024, 1, 31, 1), Moment(2024, 3, 20, 1), Moment(2024, 4, 5, 1),
     Moment(2024, 2, 10, 1), Moment(2023, 2, 10, 1), Moment(2023, 12, 31, 1)}

InitDue ==
    /\ store \in { [EmptyStore EXCEPT !.transactions = history, !.bills = <<bill>>] :
                     history \in {h \in ProjectHistories : \A i \in 1..Len(h) :
                                                              fromisoformat(h[i].date).ok},
                     bill \in DueBills }
    /\ now \in DueMoments
    /\ sync = Idle
    /\ env = NoRemote
    /\ result = NoResult
    /\ held = NoRequest

SpecDue == InitDue /\ [][ProjectPass]_vars

-----------------------------------------------------------------------------
(* Record sets the analysis endpoints are requested on                     *)

Income(source, amount) ==
    [source |-> source, amount |-> amount, frequency |-> "Monthly",
     date_added |-> "2024-01-02T09:00:00"]

Debt(name, balance, min_payment) ==
    [name |-> name, balance |-> balance, interest_rate |-> 1999, min_payment |-> min_payment]

AnalysisStores ==
    { [EmptyStore EXCEPT !.transactions = history, !.bills = bills,
                         !.income = income, !.debt = debt,
                         !.budget = [groceries |-> groceries, savings |-> 10000,
                                     miscellaneous |-> 5000]] :
          history \in ProjectHistories,
          bills \in {<<>>, <<Bill("Phone", 6500, 15)>>,
                     <<Bill("Rent", 150000, 1), Bill("Insurance", 12000, 31)>>},
          income \in {<<>>, <<Income("Acme Corp", 240000)>>},
          debt \in {<<>>, <<Debt("Visa", 350000, 7500)>>},
          groceries \in {0, 40000} }

InitAnalysis ==
    /\ store \in AnalysisStores
    /\ now \in {Moment(2024, 1, 31, 1), Moment(2024, 3, 20, 1)}
    /\ sync = Idle
    /\ env = NoRemote
    /\ result = NoResult
    /\ held = NoRequest

Analysis ==
    get_dashboard \/ analyze_spending \/ DetectPass \/ CategorizePass \/ ProjectPass

SpecAnalysis == InitAnalysis /\ [][Analysis]_vars

-----------------------------------------------------------------------------
(* The data routes: /api/income, /api/bills, /api/budget, /api/debt and    *)
(* /api/convert_to_bill.  A request is [method, json]; the answer is left  *)
(* in result with the request it answers.                                  *)

MaxRecords == 2     \* entries a POST may bring a list of the record set to

Response(op, request, status, body) ==
    [op |-> op, request |-> request, status |-> status, body |-> body]

Success == [success |-> TRUE]
InvalidIndex == [error |-> "Invalid index"]
\* an exception that leaves a view function: Flask answers 500
ServerError == [error |-> "Internal Server Error"]

HasKeys(json, fields) == fields \subseteq DOMAIN json

\* ValidIndex without its lower bound: index < len(...)
ValidIndex_upper(index, list) == index < Len(list)

\* 0 <= index < len(data.get(..., []))
ValidIndex(index, list) == 0 <= index /\ index < Len(list)

\* del list[index]: a negative index counts from the end of the list;
\* ok = FALSE for the IndexError of an index outside -len .. len-1
DeleteAt(list, index) ==
    LET n == Len(list)
        k == IF index >= 0 THEN index + 1 ELSE n + index + 1
    IN  IF k >= 1 /\ k <= n
        THEN [ok |-> TRUE, value |-> SubSeq(list, 1, k - 1) \o SubSeq(list, k + 1, n)]
        ELSE [ok |-> FALSE, value |-> list]

\* the DELETE branch of handle_income, handle_bills and handle_debt on the
\* list named field; [data, status, body], data being saved when status is 200
DeleteEntry(data, field, json) ==
    IF ~HasKeys(json, {"index"})
    THEN [data |-> data, status |-> 500, body |-> ServerError]
    ELSE IF ValidIndex(json.index, data[field])
    THEN LET deleted == DeleteAt(data[field], json.index)
         IN  IF deleted.ok
             THEN [data |-> [data EXCEPT ![field] = deleted.value],
                   status |-> 200, body |-> Success]
             ELSE [data |-> data, status |-> 500, body |-> ServerError]
    ELSE [data |-> data, status |-> 400, body |-> InvalidIndex]

\* the request is answered and, when it succeeded, its record set is saved
Answer(op, request, outcome) ==
    /\ result' = Response(op, request, outcome.status, outcome.body)
    /\ store' = IF outcome.status = 200 THEN outcome.data ELSE store
    /\ UNCHANGED <<now, sync, env, held>>

Get(op, request, body) ==
    /\ result' = Response(op, request, 200, body)
    /\ UNCHANGED <<store, now, sync, env, held>>

\* a POST whose JSON lacks a key the handler subscripts raises KeyError
\* before anything is appended
PostEntry(data, field, json, required, entry) ==
    IF HasKeys(json, required)
    THEN [data |-> [data EXCEPT ![field] = Append(@, entry)], status |-> 200, body |-> Success]
    ELSE [data |-> data, status |-> 500, body |-> ServerError]

IncomeEntry(json, at) ==
    [source |-> json.source, amount |-> json.amount, frequency |-> json.frequency,
     date_added |-> FormatOrd(at.day)]

BillEntry(json) ==
    [name |-> json.name, amount |-> json.amount, due_day |-> json.due_day,
     category |-> IF HasKeys(json, {"category"}) THEN json.category ELSE "Other"]

DebtEntry(json) ==
    [name |-> json.name, balance |-> json.balance,
     interest_rate |-> json.interest_rate, min_payment |-> json.min_payment]

\* the bill made of a recurring pattern: due_day defaults to 1 and category
\* to 'Other'
ConvertedBill(json) ==
    [name |-> json.description, amount |-> json.amount,
     due_day |-> IF HasKeys(json, {"due_day"}) THEN json.due_day ELSE 1,
     category |-> IF HasKeys(json, {"category"}) THEN json.category ELSE "Other",
     auto_detected |-> TRUE]

IncomeJson ==
    { [source |-> "Acme Corp", amount |-> 240000, frequency |-> "Monthly"],
      [source |-> "Acme Corp", frequency |-> "Monthly"] }

BillJson ==
    { [name |-> "Phone", amount |-> 6500, due_day |-> 15],
      [name |-> "Phone", amount |-> 6500],
      [amount |-> 6500, due_day |-> 15, category |-> "Housing"] }

DebtJson ==
    { [name |-> "Visa", balance |-> 350000, interest_rate |-> 1999, min_payment |-> 7500],
      [name |-> "Visa", balance |-> 350000, interest_rate |-> 1999] }

BudgetJson ==
    { [groceries |-> 40000, savings |-> 10000] }

PatternJson ==
    { [description |-> "Netflix Subscription", amount |-> 1599],
      [description |-> "Acme Gym", amount |-> 3500, due_day |-> 27, category |-> "Recreation"],
      [amount |-> 1599, due_day |-> 14],
      [description |-> "Netflix Subscription", category |-> "Service"] }

\* the JSON of a DELETE: an index from below, inside and above the list, or
\* a body without the key
DeleteJson == { [index |-> i] : i \in {-1, 0, MaxRecords - 1, MaxRecords} } \cup { [idx |-> 0] }

Requests(posts) ==
    { [method |-> "GET"] }
    \cup { [method |-> "POST", json |-> json] : json \in posts }
    \cup { [method |-> "DELETE", json |-> json] : json \in DeleteJson }

Room(data, field, json, required) ==
    HasKeys(json, required) => Len(data[field]) < env.room

handle_income ==
    \E request \in Requests(env.income) :
        LET data == load_data
        IN  CASE request.method = "GET" -> Get("handle_income", request, data.income)
              [] request.method = "POST" ->
                    /\ Room(data, "income", request.json, {"source", "amount", "frequency"})
                    /\ Answer("handle_income", request,
                              PostEntry(data, "income", request.json,
                                        {"source", "amount", "frequency"},
                                        IncomeEntry(request.json, now)))
              [] request.method = "DELETE" ->
                    Answer("handle_income", request, DeleteEntry(data, "income", request.json))

handle_bills ==
    \E request \in Requests(env.bills) :
        LET data == load_data
        IN  CASE request.method = "GET" -> Get("handle_bills", request, data.bills)
              [] request.method = "POST" ->
                    /\ Room(data, "bills", request.json, {"name", "amount", "due_day"})
                    /\ Answer("handle_bills", request,
                              PostEntry(data, "bills", request.json,
                                        {"name", "amount", "due_day"},
                                        BillEntry(request.json)))
              [] request.method = "DELETE" ->
                    Answer("handle_bills", request, DeleteEntry(data, "bills", request.json))

\* every key of the budget JSON is optional and defaults to 0
handle_budget ==
    \E request \in { r \in Requests(env.budget) : r.method # "DELETE" } :
        LET data == load_data
            Of(json, key) == IF HasKeys(json, {key}) THEN json[key] ELSE 0
        IN  CASE request.method = "GET" -> Get("handle_budget", request, data.budget)
              [] request.method = "POST" ->
                    Answer("handle_budget", request,
                           [data |-> [data EXCEPT !.budget =
                                         [groceries |-> Of(request.json, "groceries"),
                                          savings |-> Of(request.json, "savings"),
                                          miscellaneous |-> Of(request.json, "miscellaneous")]],
                            status |-> 200, body |-> Success])

handle_debt ==
    \E request \in Requests(env.debt) :
        LET data == load_data
        IN  CASE request.method = "GET" -> Get("handle_debt", request, data.debt)
              [] request.method = "POST" ->
                    /\ Room(data, "debt", request.json,
                            {"name", "balance", "interest_rate", "min_payment"})
                    /\ Answer("handle_debt", request,
                              PostEntry(data, "debt", request.json,
                                        {"name", "balance", "interest_rate", "min_payment"},
                                        DebtEntry(request.json)))
              [] request.method = "DELETE" ->
                    Answer("handle_debt", request, DeleteEntry(data, "debt", request.json))

\* convert_to_bill that appends nothing when a bill of that name is tracked
convert_to_bill_once ==
    \E json \in env.patterns :
        LET data    == load_data
            request == [method |-> "POST", json |-> json]
        IN  /\ Room(data, "bills", json, {"description", "amount"})
            /\ Answer("convert_to_bill", request,
                      IF HasKeys(json, {"description", "amount"})
                      THEN [data |-> IF \E b \in 1..Len(data.bills) :
                                            data.bills[b].name = json.description
                                     THEN data
                                     ELSE [data EXCEPT !.bills = Append(@, ConvertedBill(json))],
                            status |-> 200, body |-> Success]
                      ELSE [data |-> data, status |-> 500, body |-> ServerError])

\* convert_to_bill with the new bill put first: insert(0, ...)
convert_to_bill_first ==
    \E json \in env.patterns :
        LET data    == load_data
            request == [method |-> "POST", json |-> json]
        IN  /\ Room(data, "bills", json, {"description", "amount"})
            /\ Answer("convert_to_bill", request,
                      IF HasKeys(json, {"description", "amount"})
                      THEN [data |-> [data EXCEPT !.bills = <<ConvertedBill(json)>> \o @],
                            status |-> 200, body |-> Success]
                      ELSE [data |-> data, status |-> 500, body |-> ServerError])

convert_to_bill ==
    \E json \in env.patterns :
        LET data    == load_data
            request == [method |-> "POST", json |-> json]
        IN  /\ Room(data, "bills", json, {"description", "amount"})
            /\ Answer("convert_to_bill", request,
                      PostEntry(data, "bills", json, {"description", "amount"},
                                ConvertedBill(json)))

Routes == handle_income \/ handle_bills \/ handle_budget \/ handle_debt \/ convert_to_bill

\* a record set with a linked bank and an imported transaction, its lists
\* empty or holding an entry
RouteStores ==
    { [EmptyStore EXCEPT !.plaid_items = <<PlaidItem("BankA")>>,
                         !.transactions = <<Tx("2024-01-15", -1599, "Netflix", "Service")>>,
                         !.income = income, !.bills = bills, !.debt = debt] :
          income \in {<<>>}, bills \in {<<>>, <<Bill("Loan", 30000, 29)>>},
          debt \in {<<>>} }

InitRoutes ==
    /\ store \in RouteStores
    /\ now = Moment(2024, 3, 20, 1)
    /\ sync = Idle
    /\ env = [NoRemote EXCEPT !.income = IncomeJson, !.bills = BillJson, !.debt = DebtJson,
                               !.budget = BudgetJson, !.patterns = PatternJson,
                               !.room = MaxRecords]
    /\ result = NoResult
    /\ held = NoRequest

SpecRoutes == InitRoutes /\ [][Routes]_vars

\* Bills of any numbers: the bodies POSTed to /api/bills and
\* /api/convert_to_bill carry amounts that are negative, zero or positive and
\* due_days below 1, within 1..31 and above 31
NumericBillJson ==
    { [name |-> "Phone", amount |-> 6500, due_day |-> 15],
      [name |-> "Gym", amount |-> -3500, due_day |-> 0],
      [name |-> "Loan", amount |-> 0, due_day |-> 32] }

NumericPatternJson ==
    { [description |-> "Netflix Subscription", amount |-> 1599],
      [description |-> "Card Refund", amount |-> -1599, due_day |-> 45] }

InitBills ==
    /\ store = EmptyStore
    /\ now = Moment(2024, 3, 20, 1)
    /\ sync = Idle
    /\ env = [NoRemote EXCEPT !.bills = NumericBillJson, !.patterns = NumericPatternJson,
                               !.room = MaxRecords]
    /\ result = NoResult
    /\ held = NoRequest

SpecBills == InitBills /\ [][handle_bills \/ convert_to_bill]_vars

\* Promotion: the patterns the detector reports on the credit histories, as
\* the page sends them back to /api/convert_to_bill, with and without a due_day
DetectedPatternJson ==
    { [description |-> "Netflix Subscription", amount |-> 1599, frequency |-> "Monthly",
       category |-> "Service", last_date |-> "2024-02-14", occurrences |-> 2],
      [description |-> "Netflix Subscription", amount |-> 1599, frequency |-> "Monthly",
       category |-> "Service", last_date |-> "2024-02-14", occurrences |-> 2,
       due_day |-> 14],
      [description |-> "Acme Corp Payroll", amount |-> 120000, frequency |-> "Monthly",
       category |-> "Income", last_date |-> "2024-03-01", occurrences |-> 2] }

InitPromote ==
    /\ store \in { [EmptyStore EXCEPT !.transactions = history] :
                     history \in {h \in ProjectHistories :
                                     /\ \A i \in 1..Len(h) : fromisoformat(h[i].date).ok
                                     /\ \E i \in 1..Len(h) :
                                           h[i].description = "Netflix Subscription"
                                           /\ h[i].amount > 0} }
    /\ now \in ProjectMoments
    /\ sync = Idle
    /\ env = [NoRemote EXCEPT !.patterns = DetectedPatternJson, !.room = MaxRecords]
    /\ result = NoResult
    /\ held = NoRequest

SpecPromote == InitPromote /\ [][convert_to_bill \/ get_dashboard \/ analyze_spending]_vars

-----------------------------------------------------------------------------
(* POST /api/plaid/disconnect, and requests that overlap                   *)

\* the JSON of a disconnect: the item of a linked bank, an item that is not
\* linked, or a body without the key (request.json.get gives None)
DisconnectJson == { [item_id |-> "item-BankA"], [item_id |-> "item-Other"], [id |-> "item-BankA"] }

\* disconnect_bank that forgets what the banks brought
disconnect_bank_purging ==
    \E json \in env.item_ids :
        LET item_id == IF HasKeys(json, {"item_id"}) THEN json.item_id ELSE None
            data    == load_data
            kept    == SelectSeq(data.plaid_items, LAMBDA item : item.item_id # item_id)
        IN  Answer("disconnect_bank", [method |-> "POST", json |-> json],
                   [data |-> [data EXCEPT !.plaid_items = kept, !.transactions = <<>>],
                    status |-> 200, body |-> Success])

disconnect_bank ==
    \E json \in env.item_ids :
        LET item_id == IF HasKeys(json, {"item_id"}) THEN json.item_id ELSE None
            data    == load_data
            kept    == SelectSeq(data.plaid_items, LAMBDA item : item.item_id # item_id)
        IN  Answer("disconnect_bank", [method |-> "POST", json |-> json],
                   [data |-> [data EXCEPT !.plaid_items = kept],
                    status |-> 200, body |-> Success])

\* handle_bills on a POST, up to its save: data = load_data() and the request
\* body are in hand
BillsLoad ==
    /\ held.pc = "idle"
    /\ \E json \in env.bills :
          /\ Room(load_data, "bills", json, {"name", "amount", "due_day"})
          /\ held' = [pc |-> "loaded", data |-> load_data, json |-> json]
    /\ UNCHANGED <<store, now, sync, result, env>>

\* BillsSave that reads the record set again before it appends
BillsSave_merging ==
    /\ held.pc = "loaded"
    /\ \E outcome \in {PostEntry(load_data, "bills", held.json, {"name", "amount", "due_day"},
                                  BillEntry(held.json))} :
          /\ result' = Response("handle_bills", [method |-> "POST", json |-> held.json],
                                outcome.status, outcome.body)
          /\ store' = IF outcome.status = 200 THEN outcome.data ELSE store
    /\ held' = NoRequest
    /\ UNCHANGED <<now, sync, env>>

\* the rest of handle_bills on a POST: the bill is appended to the data that
\* was loaded, save_data(data) writes it and the request is answered
BillsSave ==
    /\ held.pc = "loaded"
    /\ \E outcome \in {PostEntry(held.data, "bills", held.json, {"name", "amount", "due_day"},
                                  BillEntry(held.json))} :
          /\ result' = Response("handle_bills", [method |-> "POST", json |-> held.json],
                                outcome.status, outcome.body)
          /\ store' = IF outcome.status = 200 THEN outcome.data ELSE store
    /\ held' = NoRequest
    /\ UNCHANGED <<now, sync, env>>

\* a sync_transactions request and bills POSTs served at the same time: the
\* development server of app.run handles each request in a thread of its own.
\* The remote answers every fetch with a last page
InitOverlap ==
    /\ store = [EmptyStore EXCEPT !.plaid_items = <<PlaidItem("BankA")>>]
    /\ now = Moment(2024, 3, 20, 1)
    /\ sync = Idle
    /\ env = [NoRemote EXCEPT !.pages = Pages, !.more = {FALSE}, !.cursors = Cursors,
                               !.calls = MaxCalls, !.bills = BillJson, !.room = MaxRecords]
    /\ result = NoResult
    /\ held = NoRequest

SpecOverlap == InitOverlap /\ [][sync_transactions \/ BillsLoad \/ BillsSave]_vars

\* Every operation that saves or reads the record set, a bills POST
\* overlapping the others: one linked bank and pages of at most one
\* transaction.  The clients of one behaviour POST to one of the lists of
\* the record set (or to none), with one well-formed body
OperationClients ==
    { [NoRemote EXCEPT !.income = {json \in IncomeJson :
                                      HasKeys(json, {"source", "amount", "frequency"})}],
      [NoRemote EXCEPT !.bills = {json \in BillJson :
                                     HasKeys(json, {"name", "amount", "due_day"})}],
      [NoRemote EXCEPT !.debt = {json \in DebtJson : HasKeys(json, {"min_payment"})}],
      [NoRemote EXCEPT !.budget = BudgetJson],
      [NoRemote EXCEPT !.patterns = {json \in PatternJson :
                                        HasKeys(json, {"description", "amount", "due_day"})}] }

InitOperations ==
    /\ store = [EmptyStore EXCEPT !.plaid_items = <<PlaidItem("BankA")>>]
    /\ now = Moment(2024, 3, 20, 1)
    /\ sync = Idle
    /\ \E client \in OperationClients :
          env = [client EXCEPT !.pages = {page \in Pages : Len(page) <= 1},
                               !.more = {FALSE}, !.cursors = Cursors, !.calls = MaxCalls,
                               !.item_ids = DisconnectJson,
                               !.room = MaxRecords]
    /\ result = NoResult
    /\ held = NoRequest

Operations ==
    \/ sync_transactions
    \/ Routes
    \/ disconnect_bank
    \/ get_dashboard
    \/ analyze_spending
    \/ BillsLoad
    \/ BillsSave

SpecOperations == InitOperations /\ [][Operations]_vars

-----------------------------------------------------------------------------
(* Claims about sync_transactions, checked under Spec                      *)

UniqueKeys(transactions) ==
    \A i, j \in 1..Len(transactions) :
        i < j => <<transactions[i].date, transactions[i].description, transactions[i].amount>>
                 # <<transactions[j].date, transactions[j].description, transactions[j].amount>>

\* C1: however the remote pages its transactions, no two transactions of the
\* persisted record set, nor of the record set a sync request is building,
\* have the same (date, description, amount).
C1_NoDuplicateKeys ==
    UniqueKeys(store.transactions) /\ UniqueKeys(sync.data.transactions)

\* a finished request that was offered a transaction more than once and has
\* stored it once
C1_Witness ==
    /\ sync.pc = "idle"
    /\ sync.skipped
    /\ sync.total_imported = 1
    /\ Len(store.transactions) = 1


\* a transactions_sync request is issued: by a page or by a fault
Fetch == sync'.iterations = sync.iterations + 1

\* C15: within one sync_transactions call every linked account is fetched at
\* least once and at most max_iterations (20) times, no page is fetched for an
\* account after a page that reported has_more = false, and the call ends
\* whatever the remote reports.
C15_BoundedFetches ==
    /\ [](sync.iterations <= max_iterations)
    /\ []((sync.pc = "for" /\ sync.item > 1) => sync.iterations >= 1)
    /\ [](sync.pc = "save" => Len(sync.ended) = Len(sync.data.plaid_items))
    /\ [][Fetch => (sync.iterations = 0 \/ sync.response.has_more)]_vars
    /\ (sync.pc # "idle") ~> (sync.pc = "idle")

\* a call has ended whose last account was stopped by the cap while the
\* remote still reported has_more = true
C15_Witness ==
    /\ sync.pc = "idle" /\ sync.calls >= 1
    /\ sync.iterations = max_iterations
    /\ sync.response.has_more
    /\ Len(sync.ended) = 2 /\ ~sync.ended[2].fault


\* the institution names of the accounts whose loop ended in a fault, in the
\* order of plaid_items
RECURSIVE FaultedNames(_, _)
FaultedNames(items, ended) ==
    IF Len(ended) = 0 THEN <<>>
    ELSE (IF Head(ended).fault THEN <<Head(items).institution_name>> ELSE <<>>)
         \o FaultedNames(Tail(items), Tail(ended))

\* C17: a fault on one linked account adds exactly one entry for it to the
\* error list and every other account is still synced (cursor and last_sync
\* set); what the call imported is counted, persisted, and answered with
\* success = true together with the error list.
C17_FaultIsolated ==
    /\ sync.pc = "save" =>
          /\ Len(sync.ended) = Len(sync.data.plaid_items)
          /\ sync.errors = FaultedNames(sync.data.plaid_items, sync.ended)
          /\ \A i \in 1..Len(sync.ended) :
                ~sync.ended[i].fault =>
                    /\ sync.data.plaid_items[i].cursor = sync.ended[i].next_cursor
                    /\ sync.data.plaid_items[i].last_sync # None
          /\ sync.total_imported
                = Len(sync.data.transactions) - Len(store.transactions)
    /\ (sync.pc = "idle" /\ sync.calls >= 1) =>
          /\ store = sync.data
          /\ result.status = 200 /\ result.body.success
          /\ result.body.imported = sync.total_imported
          /\ result.body.errors = sync.errors

\* the first account faulted, the second was synced after it and brought a
\* transaction that is now persisted
C17_Witness ==
    /\ sync.pc = "idle" /\ sync.calls >= 1
    /\ sync.errors = <<"BankA">>
    /\ Len(sync.ended) = 2 /\ sync.ended[1].fault /\ ~sync.ended[2].fault
    /\ store.plaid_items[2].cursor # None
    /\ result.body.imported >= 1 /\ Len(store.transactions) >= 1


\* after a call, every account whose loop ended without a fault has the
\* next_cursor of its last page as its persisted cursor
LastCursorPersisted ==
    (sync.pc = "idle" /\ sync.calls >= 1) =>
        \A i \in 1..Len(sync.ended) :
            ~sync.ended[i].fault => store.plaid_items[i].cursor = sync.ended[i].next_cursor

\* the account whose first request of this call was the latest request
FirstFetched ==
    IF sync.pc = "while" /\ sync.iterations = 1 THEN sync.item
    ELSE IF sync.pc = "for" /\ sync.item > 1 /\ sync.iterations = 1 THEN sync.item - 1
    ELSE 0

\* C16 as stated: the persisted cursor is the next_cursor of the last page, and
\* the first fetch of the account in the next call carries exactly the
\* persisted cursor.
C16_ExactCursorSent ==
    /\ LastCursorPersisted
    /\ FirstFetched > 0 => sync.request = store.plaid_items[FirstFetched].cursor

\* C16: the persisted cursor is the next_cursor of the last page; the first
\* fetch of the account in the next call carries the persisted cursor when it
\* is a non-empty string and no cursor when it is empty or was never set.
C16_CursorResumed ==
    /\ LastCursorPersisted
    /\ FirstFetched > 0 =>
          LET persisted == store.plaid_items[FirstFetched].cursor
          IN  IF persisted \in {None, ""} THEN sync.request = None
              ELSE sync.request = persisted

\* the second call opens an account with the cursor the first call persisted
\* for it, and the remote answers with another one
C16_Witness ==
    /\ sync.calls = 2 /\ sync.pc = "while" /\ sync.iterations = 1
    /\ store.plaid_items[sync.item].cursor = "c2"
    /\ sync.request = "c2"
    /\ sync.response.next_cursor = "c1"

\* a list is the beginning of another
IsPrefix(short, long) ==
    Len(short) <= Len(long) /\ SubSeq(long, 1, Len(short)) = short

\* the fetch of the account in hand raises after at least one page of it
FaultAfterPages ==
    /\ sync.pc = "while" /\ sync'.pc = "for"
    /\ Len(sync'.errors) = Len(sync.errors) + 1
    /\ sync.iterations >= 1

\* save_data and the response of a call
Saved == sync.pc = "save" /\ sync'.pc = "idle"

\* C28: when the fetch of an account faults after one or more of its pages,
\* the transactions those pages brought stay in the record set, are persisted
\* and counted in imported, the account's persisted cursor and last_sync keep
\* their values of before the call, and the next call opens the account from
\* that cursor and stores no transaction a second time.
C28_FaultKeepsPages ==
    /\ [][FaultAfterPages =>
              /\ sync'.data.transactions = sync.data.transactions
              /\ sync'.total_imported = sync.total_imported
              /\ sync'.data.plaid_items = store.plaid_items]_vars
    /\ [][(sync.pc # "idle" /\ sync'.pc # "idle") =>
              /\ IsPrefix(sync.data.transactions, sync'.data.transactions)
              /\ sync'.total_imported - sync.total_imported
                    = Len(sync'.data.transactions) - Len(sync.data.transactions)]_vars
    /\ [][Saved =>
              /\ store'.transactions = sync.data.transactions
              /\ IsPrefix(store.transactions, store'.transactions)
              /\ result'.body.imported = Len(store'.transactions) - Len(store.transactions)
              /\ \A i \in 1..Len(sync.ended) :
                    sync.ended[i].fault =>
                        /\ store'.plaid_items[i].cursor = store.plaid_items[i].cursor
                        /\ store'.plaid_items[i].last_sync = store.plaid_items[i].last_sync]_vars
    /\ [](FirstFetched > 0 =>
              LET persisted == store.plaid_items[FirstFetched].cursor
              IN  IF persisted \in {None, ""} THEN sync.request = None
                  ELSE sync.request = persisted)
    /\ [](UniqueKeys(store.transactions) /\ UniqueKeys(sync.data.transactions))

\* the first call faulted after a page that brought a transaction, which was
\* persisted while the cursor "c0" was kept; the second call has asked from
\* "c0" again and was offered a transaction it did not store a second time
C28_Witness ==
    /\ sync.calls = 2 /\ sync.pc = "while" /\ sync.iterations = 1
    /\ result.op = "sync_transactions"
    /\ result.body.errors = <<"BankA">> /\ result.body.imported >= 1
    /\ store.plaid_items[1].cursor = "c0"
    /\ store.plaid_items[1].last_sync = FormatYmd(2024, 3, 1)
    /\ Len(store.transactions) >= 1
    /\ sync.request = "c0"
    /\ sync.skipped /\ sync.total_imported = 0


-----------------------------------------------------------------------------
(* Claims about detect_recurring_transactions, checked under SpecDetect    *)

Detected == result.op = "detect"

History == store.transactions

KeysOfHistory == {GroupKey(History[i]) : i \in 1..Len(History)}

\* the transactions of the history whose description has first-three-words key k
Members(k) == SelectSeq(History, LAMBDA t : GroupKey(t) = k)

\* the entries of the detector's output made for key k
PatternsFor(k) == {j \in 1..Len(result.recurring) : GroupKey(result.recurring[j]) = k}

AllParse(m) == \A i \in 1..Len(m) : fromisoformat(m[i].date).ok

SortedDays(m) == SortInts([i \in 1..Len(m) |-> fromisoformat(m[i].date).day])

\* the sum of the day-gaps between consecutive sorted dates
GapSum(m) ==
    LET d == SortedDays(m) IN SumSeq([i \in 1..(Len(d) - 1) |-> d[i + 1] - d[i]])

\* C2: a history of fewer than 10 transactions yields an empty list, and the
\* pass does not fail, whatever its descriptions, amounts and dates are.
C2_FewTransactions ==
    (Detected /\ Len(History) < 10) => (result.ok /\ result.recurring = <<>>)

\* a history of 9 transactions holding a group with a malformed date
C2_Witness ==
    /\ Detected
    /\ Len(History) = 9
    /\ Len(Members("netflix subscription")) = 2
    /\ ~AllParse(Members("netflix subscription"))
    /\ result.recurring = <<>>

\* C3: in a history of at least 10 transactions, every group of 2 or more
\* transactions with one first-three-words key, one non-zero amount of either
\* sign and dates exactly 30 days apart gets exactly one pattern, whose
\* occurrences is the size of the group.
C3_SpacedGroupEmitted ==
    (Detected /\ result.ok /\ Len(History) >= 10) =>
        \A k \in KeysOfHistory :
            LET m == Members(k)
                d == SortedDays(m)
            IN  ( /\ Len(m) >= 2
                  /\ \A i \in 1..Len(m) : m[i].amount = m[1].amount /\ m[i].amount # 0
                  /\ AllParse(m)
                  /\ \A i \in 1..(Len(d) - 1) : d[i + 1] - d[i] = 30 )
                => /\ Cardinality(PatternsFor(k)) = 1
                   /\ \A j \in PatternsFor(k) : result.recurring[j].occurrences = Len(m)

\* C4: three charges of -15.99 "Netflix Subscription" dated 2024-01-15,
\* 2024-02-14 and 2024-03-16, in a history of at least 10 transactions, yield
\* exactly one pattern: amount 15.99, "Monthly", occurrences 3, last_date
\* 2024-03-16.
C4_NetflixExample ==
    LET m == Members("netflix subscription")
    IN  ( /\ Detected /\ Len(History) >= 10
          /\ Len(m) = 3
          /\ {m[i].date : i \in 1..3} = {"2024-01-15", "2024-02-14", "2024-03-16"}
          /\ \A i \in 1..3 : m[i].amount = -1599 /\ m[i].description = "Netflix Subscription" )
        => /\ result.ok
           /\ Cardinality(PatternsFor("netflix subscription")) = 1
           /\ \A j \in PatternsFor("netflix subscription") :
                 LET rec == result.recurring[j]
                 IN  /\ rec.description = "Netflix Subscription"
                     /\ rec.amount.num = 1599 * rec.amount.den
                     /\ rec.frequency = "Monthly"
                     /\ rec.occurrences = 3
                     /\ rec.last_date = "2024-03-16"

\* the members of a pair differ by pct / 1000 of their mean
DifferBy(m, permille) ==
    /\ m[1].amount # m[2].amount
    /\ 2000 * Abs(m[1].amount - m[2].amount) = permille * Abs(m[1].amount + m[2].amount)

\* a group of exactly two parseable dates whose gap lies in [25, 35]
MonthlyPair(m) ==
    /\ Len(m) = 2
    /\ AllParse(m)
    /\ GapSum(m) >= 25 /\ GapSum(m) <= 35

\* C5: a pair whose gap is within [25, 35] days is not emitted
\* when its amounts differ by exactly 10% of their mean, and is emitted when
\* they differ by 9.9% of their mean.
C5_TenPercentOfMean ==
    (Detected /\ result.ok /\ Len(History) >= 10) =>
        \A k \in KeysOfHistory :
            LET m == Members(k)
            IN  MonthlyPair(m) =>
                    /\ DifferBy(m, 100) => PatternsFor(k) = {}
                    /\ DifferBy(m, 99) => PatternsFor(k) # {}

\* every amount of the group deviates from the mean by less than 10% of it
StrictlyStable(m) ==
    LET S == SumSeq([i \in 1..Len(m) |-> m[i].amount])
    IN  \A i \in 1..Len(m) : 10 * Abs(Len(m) * m[i].amount - S) < S

\* C6: in a history of at least 10 transactions, a group that passes the
\* amount test is emitted if and only if the average of the day-gaps between
\* its consecutive sorted dates lies in [25, 35]: 24 and 36 are out, 25 and
\* 35 are in.
C6_GapBoundary ==
    (Detected /\ Len(History) >= 10) =>
        \A k \in KeysOfHistory :
            LET m == Members(k)
            IN  (Len(m) >= 2 /\ AllParse(m) /\ StrictlyStable(m)) =>
                    ( PatternsFor(k) # {}
                      <=> /\ 25 * (Len(m) - 1) <= GapSum(m)
                          /\ GapSum(m) <= 35 * (Len(m) - 1) )

\* the group of key k is one the code accepts when it examines it: two or
\* more members, every amount within 10% of a positive mean, dates that
\* parse, and gaps that average to 25..35 days
Acceptable(k) ==
    LET m == Members(k)
    IN  /\ Len(m) >= 2 /\ StrictlyStable(m) /\ AllParse(m)
        /\ 25 * (Len(m) - 1) <= GapSum(m) /\ GapSum(m) <= 35 * (Len(m) - 1)

\* C22: in a history of at least 10 transactions a malformed date in a member
\* of a group does not make the pass fail: that group gets no pattern, and the
\* groups the code accepts still get theirs.
C22_MalformedDateTolerated ==
    (Detected /\ Len(History) >= 10) =>
        /\ result.ok
        /\ \A k \in KeysOfHistory :
              /\ ~AllParse(Members(k)) => PatternsFor(k) = {}
              /\ Acceptable(k) => PatternsFor(k) # {}


\* C25: the detector emits at most one pattern per normalized key, and each
\* emitted pattern has amount = |mean of the group's amounts|, frequency
\* "Monthly", last_date = the latest date of the group, occurrences = the
\* size of the group, and the description and category of the member that
\* comes first in the stored order.
C25_PatternOfGroup ==
    Detected =>
        /\ \A j \in 1..Len(result.recurring) : GroupKey(result.recurring[j]) \in KeysOfHistory
        /\ \A k \in KeysOfHistory :
              LET m == Members(k)
                  S == SumSeq([i \in 1..Len(m) |-> m[i].amount])
              IN  /\ Cardinality(PatternsFor(k)) <= 1
                  /\ \A j \in PatternsFor(k) :
                        LET rec == result.recurring[j]
                        IN  /\ rec.amount.num * Len(m) = Abs(S) * rec.amount.den
                            /\ rec.amount.num >= 0 /\ rec.amount.den > 0
                            /\ rec.frequency = "Monthly"
                            /\ \E i \in 1..Len(m) : m[i].date = rec.last_date
                            /\ \A i \in 1..Len(m) :
                                  fromisoformat(m[i].date).day <= fromisoformat(rec.last_date).day
                            /\ rec.occurrences = Len(m)
                            /\ rec.description = m[1].description
                            /\ rec.category = m[1].category

\* a pattern made of a group stored latest first: it bears the description
\* and category of the later-dated member, along with the payroll pattern
C25_Witness ==
    /\ Detected /\ result.ok
    /\ Len(result.recurring) = 2
    /\ \E j \in PatternsFor("netflix subscription monthly") :
          /\ result.recurring[j].description = "NETFLIX  subscription\tmonthly 02"
          /\ result.recurring[j].category = "Entertainment"
          /\ result.recurring[j].last_date = "2024-02-14"
          /\ result.recurring[j].occurrences = 2


\* a turn of the detector's loop was applied to the group of key result.key
Examined == result.op = "group"

\* C29: for a group that passed the amount test and whose dates are date-only
\* strings, the turn accepts the group exactly when
\* 25 <= (latest - earliest) / (size - 1) <= 35: the spacing in between
\* does not matter, and members of one date count toward the size.
C29_EndpointsDecide ==
    Examined =>
        LET m        == Members(result.key)
            days     == {fromisoformat(m[i].date).day : i \in 1..Len(m)}
            earliest == CHOOSE d \in days : \A e \in days : d <= e
            latest   == CHOOSE d \in days : \A e \in days : e <= d
        IN  (result.stable /\ AllParse(m)) =>
                /\ result.ok
                /\ result.recurring # <<>>
                     <=> /\ 25 * (Len(m) - 1) <= latest - earliest
                         /\ latest - earliest <= 35 * (Len(m) - 1)

\* the group with gaps of 1 and 59 days was accepted
C29_Witness ==
    /\ Examined /\ result.key = "netflix subscription" /\ result.stable
    /\ [i \in 1..Len(Members(result.key)) |-> Members(result.key)[i].date]
          = <<"2024-01-15", "2024-01-16", "2024-03-15">>
    /\ Len(result.recurring) = 1
    /\ result.recurring[1].occurrences = 3


-----------------------------------------------------------------------------
(* Claims about auto_categorize_spending, checked under SpecCategorize     *)

Categorized == result.op = "categorize"

Buckets == {"groceries", "savings", "miscellaneous", "bills", "income"}

\* the transaction under test: the last one on file
Last == History[Len(History)]

\* the categorizer's output for the record set without its last transaction
Before ==
    auto_categorize_spending(
        [store EXCEPT !.transactions = SubSeq(History, 1, Len(History) - 1)], now)

Changed == {b \in Buckets : result.categorized[b] # Before[b]}

\* the date parses and lies in the last 29 days or is today's
Recent(trans) ==
    /\ fromisoformat(trans.date).ok
    /\ fromisoformat(trans.date).day \in (now.day - 29)..now.day

Is(trans, description, amount) ==
    trans.description = description /\ trans.amount = amount

\* C7: a transaction adds the absolute value of its amount to at most one
\* bucket and leaves the others as they were; a recent -250 "Whole Foods
\* Market" raises groceries only, a recent +1200 "Acme Corp Payroll" raises
\* income only, and a +5 "Round-Up Transfer" changes nothing.
C7_OneBucket ==
    Categorized =>
        /\ Cardinality(Changed) <= 1
        /\ \A b \in Changed : result.categorized[b] = Before[b] + Abs(Last.amount)
        /\ (Recent(Last) /\ Is(Last, "Whole Foods Market", -25000)) => Changed = {"groceries"}
        /\ (Recent(Last) /\ Is(Last, "Acme Corp Payroll", 120000)) => Changed = {"income"}
        /\ Is(Last, "Round-Up Transfer", 500) => Changed = {}

\* a recent -250 "Whole Foods Market" after other spending of the window
C7_Witness ==
    /\ Categorized
    /\ Len(History) = 3
    /\ Recent(Last) /\ Is(Last, "Whole Foods Market", -25000)
    /\ result.categorized.groceries = Before.groceries + 25000
    /\ Before.groceries > 0

\* the priority table: the bucket of a transaction by sign, keywords and size
TableBucket(trans) ==
    LET desc == lower(trans.description)
        cat  == lower(trans.category)
        Has(keywords, text) == \E k \in 1..Len(keywords) : Contains(text, keywords[k])
    IN  CASE trans.amount > 0 ->
                 ( CASE Has(ignore_keywords, desc) -> "none"
                     [] ~Has(ignore_keywords, desc) /\ Has(income_keywords, desc) -> "income"
                     [] ~Has(ignore_keywords, desc) /\ ~Has(income_keywords, desc)
                            /\ trans.amount > 10000 -> "income"
                     [] ~Has(ignore_keywords, desc) /\ ~Has(income_keywords, desc)
                            /\ trans.amount > 5000 /\ trans.amount <= 10000 -> "income"
                     [] OTHER -> "none" )
          [] trans.amount < 0 ->
                 ( CASE Has(grocery_keywords, desc) \/ Has(grocery_keywords, cat) -> "groceries"
                     [] ~(Has(grocery_keywords, desc) \/ Has(grocery_keywords, cat))
                            /\ (Has(bill_keywords, desc) \/ Has(bill_keywords, cat)) -> "bills"
                     [] OTHER -> "miscellaneous" )
          [] OTHER -> "none"

\* the output expected when the last transaction is counted in bucket
CountedIn(bucket) ==
    IF bucket = "none" THEN Before
    ELSE [Before EXCEPT ![bucket] = @ + Abs(Last.amount)]

\* C8: a transaction that is considered (recent, or with a date that does
\* not parse) is counted in the bucket the priority table gives it.
C8_PriorityTable ==
    (Categorized /\ (Recent(Last) \/ ~fromisoformat(Last.date).ok)) =>
        result.categorized = CountedIn(TableBucket(Last))

\* a recent debit that matches a grocery and a bill keyword counts as groceries
C8_Witness ==
    /\ Categorized
    /\ Recent(Last) /\ Is(Last, "Costco Gas", -25000)
    /\ Changed = {"groceries"}

\* the date parses and lies in the 30 days that end at the current moment
InTrailingWindow(trans) ==
    LET d == fromisoformat(trans.date)
    IN  /\ d.ok
        /\ d.day > now.day - 30 \/ (d.day = now.day - 30 /\ now.tod = 0)
        /\ d.day <= now.day

\* the date parses and is not earlier than the current moment less 30 days
NotOlderThan30Days(trans) ==
    LET d == fromisoformat(trans.date)
    IN  /\ d.ok
        /\ d.day > now.day - 30 \/ (d.day = now.day - 30 /\ now.tod = 0)

-----------------------------------------------------------------------------
(* Claims about project_future_bills, checked under SpecProject            *)

Projected == result.op = "project"

\* C10: the projections come in ascending order of date: no entry is dated
\* after the entry that follows it.
C10_AscendingDates ==
    (Projected /\ result.ok) =>
        \A i \in 1..(Len(result.projections) - 1) :
            LET earlier == fromisoformat(result.projections[i].date)
                later   == fromisoformat(result.projections[i + 1].date)
            IN  earlier.ok /\ later.ok /\ earlier.day <= later.day

\* projections of two bills and two patterns, one of a pattern ahead of one
\* of a bill
C10_Witness ==
    /\ Projected /\ result.ok
    /\ Len(result.projections) = 12
    /\ \E i, j \in 1..Len(result.projections) :
          /\ i < j
          /\ result.projections[i].type = "detected_recurring"
          /\ result.projections[j].type = "manual_bill"

\* the entries of the output that have the given type
OfType(type) == SelectSeq(result.projections, LAMBDA p : p.type = type)

\* the manual_bill entries made for a bill
EntriesOf(bill) ==
    SelectSeq(result.projections,
              LAMBDA p : p.type = "manual_bill" /\ p.name = bill.name
                         /\ p.amount = [num |-> bill.amount, den |-> 1])

\* how often a bill occurs in the bill list
Multiplicity(bill) == Cardinality({b \in 1..Len(store.bills) : store.bills[b] = bill})

\* the year and month of a date string: "2024-03"
YearMonth(date) == SubSeq(date, 1, 7)

\* C11: every tracked bill has exactly three manual_bill projections in the
\* output, in three different calendar months: no two of them share a
\* year-month or a date.
C11_ThreeMonths ==
    (Projected /\ result.ok) =>
        \A b \in 1..Len(store.bills) :
            LET bill    == store.bills[b]
                entries == EntriesOf(bill)
            IN  /\ Len(entries) = 3 * Multiplicity(bill)
                /\ Cardinality({YearMonth(entries[i].date) : i \in 1..Len(entries)}) = 3
                /\ Cardinality({entries[i].date : i \in 1..Len(entries)}) = 3

\* C12: every pattern the detector returns has exactly three projections,
\* dated 30, 60 and 90 days after its last_date, with its description and
\* amount and the tag "detected_recurring"; the projections of the bills are
\* tagged "manual_bill"; the output has 3 x (bills + patterns) entries.
C12_ThreePerPattern ==
    (Projected /\ result.ok) =>
        \E tie \in BOOLEAN :
            LET recurring == detect_recurring_transactions(store, tie)
                patterns  == recurring.value
                detected  == OfType("detected_recurring")
                manual    == OfType("manual_bill")
            IN  /\ recurring.ok
                /\ Len(result.projections) = 3 * (Len(store.bills) + Len(patterns))
                /\ Len(detected) = 3 * Len(patterns)
                /\ Len(manual) = 3 * Len(store.bills)
                /\ \A r \in 1..Len(patterns) : \A k \in 1..3 :
                       Cardinality({ i \in 1..Len(detected) :
                           /\ detected[i].name = patterns[r].description
                           /\ detected[i].amount = patterns[r].amount
                           /\ fromisoformat(detected[i].date).day
                                  = fromisoformat(patterns[r].last_date).day + 30 * k }) = 1
                /\ \A i \in 1..Len(manual) :
                       \E b \in 1..Len(store.bills) : manual[i].name = store.bills[b].name

\* one bill and two detected patterns: nine entries, the last pattern entry
\* 90 days after 2024-02-14
C12_Witness ==
    /\ Projected /\ result.ok
    /\ Len(store.bills) = 1
    /\ Len(result.projections) = 9
    /\ \E i \in 1..Len(result.projections) :
          /\ result.projections[i].type = "detected_recurring"
          /\ result.projections[i].name = "Netflix Subscription"
          /\ result.projections[i].date = "2024-05-14"

\* the date string of the day today is
Today == FormatOrd(now.day)

\* C23: every projection is future-dated: its date is not earlier than today.
C23_FutureDated ==
    (Projected /\ result.ok) =>
        \A i \in 1..Len(result.projections) :
            ~StrLess(result.projections[i].date, Today)

\* the date a bill's projection is to bear in the month of today + 30 * k
\* days: the due_day where the month has it, the 28th otherwise
ClampedDate(bill, k) ==
    LET f == Ord2Ymd(now.day + 30 * k)
    IN  FormatYmd(f.y, f.m,
                  IF Excess(bill) = 0 /\ bill.due_day >= 1
                     /\ bill.due_day <= DaysInMonth(f.y, f.m)
                  THEN bill.due_day ELSE 28)

\* C24: whatever integer a bill's due_day is and whatever today is, the
\* projector does not fail, and the bill's projection in each target month is
\* on the due_day where the month has that day and on the 28th otherwise.
C24_DueDayClamped ==
    Projected =>
        /\ result.ok
        /\ \A b \in 1..Len(store.bills) :
              LET entries == EntriesOf(store.bills[b])
              IN  /\ Len(entries) = 3 * Multiplicity(store.bills[b])
                  /\ \A k \in 0..2 :
                        \E e \in 1..Len(entries) :
                            entries[e].date = ClampedDate(store.bills[b], k)


-----------------------------------------------------------------------------
(* Claims about the analysis endpoints, checked under SpecAnalysis         *)

Dashboard == result.op = "get_dashboard"

\* C13: in the dashboard response a pass that raises has its result replaced
\* by the empty value, and the results of the passes that do not raise are
\* the ones those passes compute: a fault of one pass costs the other two
\* nothing.
C13_OtherPassesKept ==
    Dashboard =>
        \E tie \in BOOLEAN :
            LET recurring   == detect_recurring_transactions(store, tie)
                categorized == auto_categorize_spending(store, now)
                projections == project_future_bills(store, now, tie)
            IN  /\ result.categorized_spending = Dict(categorized)
                /\ result.recurring_bills = IF recurring.ok THEN recurring.value ELSE <<>>
                /\ result.projected_bills = IF projections.ok THEN projections.value ELSE <<>>

\* C14: a fault inside a pass never reaches the caller: both endpoints
\* answer normally, and the dashboard answer carries the aggregate stats.
C14_NoHardFailure ==
    /\ result.op \in {"get_dashboard", "analyze_spending"} => result.status = 200
    /\ Dashboard => result.stats = get_dashboard_stats(store)

\* C20: no analysis request and no pass changes the persisted record set;
\* its recurring_patterns and projected_bills stay as they were.
C20_ReadOnly == [][store' = store]_vars

\* a dashboard answer with patterns and projections over a record set whose
\* recurring_patterns and projected_bills are empty
C20_Witness ==
    /\ Dashboard
    /\ Len(result.recurring_bills) > 0
    /\ Len(result.projected_bills) > 3
    /\ store.recurring_patterns = <<>>
    /\ store.projected_bills = <<>>

-----------------------------------------------------------------------------
(* Claims about the data routes, checked under SpecRoutes                  *)

\* the list a handler works on, and the keys its POST subscripts
ListOf(op) ==
    CASE op = "handle_income" -> "income"
      [] op = "handle_bills" -> "bills"
      [] op = "handle_debt" -> "debt"

RequiredBy(op) ==
    CASE op = "handle_income" -> {"source", "amount", "frequency"}
      [] op = "handle_bills" -> {"name", "amount", "due_day"}
      [] op = "handle_debt" -> {"name", "balance", "interest_rate", "min_payment"}

ListHandlers == {"handle_income", "handle_bills", "handle_debt"}

\* C18: a DELETE on income, bills or debt whose index is outside
\* 0..length-1, negative ones included, is answered 400 'Invalid index' and
\* leaves the record set as it was; a DELETE without index and a POST that
\* lacks a required field are answered with an error and leave it as it was.
C18_InvalidInputRejected ==
    [][ LET answer == result'
        IN  (answer.op \in ListHandlers /\ answer.request.method # "GET") =>
              LET json == answer.request.json
                  list == store[ListOf(answer.op)]
              IN  /\ ( /\ answer.request.method = "DELETE"
                       /\ "index" \in DOMAIN json
                       /\ ~(json.index \in 0..(Len(list) - 1)) )
                     => (store' = store /\ answer.status = 400 /\ answer.body = InvalidIndex)
                  /\ (answer.request.method = "DELETE" /\ "index" \notin DOMAIN json)
                     => (store' = store /\ answer.status >= 400)
                  /\ ( /\ answer.request.method = "POST"
                       /\ ~(RequiredBy(answer.op) \subseteq DOMAIN json) )
                     => (store' = store /\ answer.status >= 400)
      ]_vars

\* DELETE of index -1 on a list of income that holds an entry, answered 400
C18_Witness ==
    /\ result.op = "handle_income"
    /\ result.request.method = "DELETE"
    /\ "index" \in DOMAIN result.request.json
    /\ result.request.json.index = -1
    /\ result.status = 400
    /\ Len(store.income) > 0

\* C19: convert_to_bill appends one bill at the end of the bill list: name
\* and amount are the payload's description and amount, due_day the
\* payload's or 1, category the payload's or 'Other', auto_detected true;
\* the bills before it and every other part of the record set are unchanged.
C19_AppendsOneBill ==
    [][ LET answer == result'
        IN  answer.op = "convert_to_bill" =>
              LET json == answer.request.json
              IN  {"description", "amount"} \subseteq DOMAIN json =>
                    /\ answer.status = 200
                    /\ store' = [store EXCEPT !.bills = Append(@,
                          [name |-> json.description,
                           amount |-> json.amount,
                           due_day |-> IF "due_day" \in DOMAIN json THEN json.due_day ELSE 1,
                           category |-> IF "category" \in DOMAIN json
                                        THEN json.category ELSE "Other",
                           auto_detected |-> TRUE])]
      ]_vars

\* a pattern without due_day and category promoted behind a bill on file
C19_Witness ==
    /\ result.op = "convert_to_bill"
    /\ result.status = 200
    /\ Len(store.bills) = 2
    /\ store.bills[1] = Bill("Loan", 30000, 29)
    /\ store.bills[2] = [name |-> "Netflix Subscription", amount |-> 1599, due_day |-> 1,
                         category |-> "Other", auto_detected |-> TRUE]

\* C27: every bill of the persisted record set has a positive amount and a
\* due_day in 1..31, whatever numbers the POSTs to /api/bills and
\* /api/convert_to_bill carried.
C27_ValidBills ==
    \A b \in 1..Len(store.bills) :
        /\ store.bills[b].amount > 0
        /\ store.bills[b].due_day \in 1..31

-----------------------------------------------------------------------------
(* Claims about promotion, checked under SpecPromote                       *)

\* a dashboard or analysis request was answered with its three results
Reported == result.op \in {"get_dashboard", "analyze_spending"} /\ result.status = 200

\* the tracked bills that were made of a pattern of the given description
PromotedAs(description) ==
    SelectSeq(store.bills,
              LAMBDA b : "auto_detected" \in DOMAIN b /\ b.name = description)

ProjectedAs(type, name) ==
    SelectSeq(result.projected_bills, LAMBDA p : p.type = type /\ p.name = name)

\* C30: promoting a detected pattern does not remove it from the detector's
\* output: the next dashboard or analysis request reports the patterns it
\* would report with no bills tracked, and projects three manual_bill entries
\* for every bill made of a pattern and three detected_recurring entries for
\* the pattern; promoting a pattern again stores another bill.
C30_PromotedStillDetected ==
    /\ [](Reported =>
            /\ \E tie \in BOOLEAN :
                  result.recurring_bills
                    = detect_recurring_transactions([store EXCEPT !.bills = <<>>], tie).value
            /\ \A j \in 1..Len(result.recurring_bills) :
                  LET rec == result.recurring_bills[j]
                  IN  /\ Len(ProjectedAs("detected_recurring", rec.description)) = 3
                      /\ Len(ProjectedAs("manual_bill", rec.description))
                            = 3 * Len(PromotedAs(rec.description)))
    /\ [][(result'.op = "convert_to_bill" /\ result'.status = 200) =>
            /\ Len(store'.bills) = Len(store.bills) + 1
            /\ SubSeq(store'.bills, 1, Len(store.bills)) = store.bills
            /\ store'.bills[Len(store'.bills)].name = result'.request.json.description]_vars

\* the Netflix pattern was promoted twice: two equal bills are tracked, the
\* pattern is still reported, and it is projected three times as a pattern
\* and six times as a bill
C30_Witness ==
    /\ Reported
    /\ Len(store.bills) = 2 /\ store.bills[1] = store.bills[2]
    /\ store.bills[1].name = "Netflix Subscription"
    /\ \E j \in 1..Len(result.recurring_bills) :
          result.recurring_bills[j].description = "Netflix Subscription"
    /\ Len(ProjectedAs("detected_recurring", "Netflix Subscription")) = 3
    /\ Len(ProjectedAs("manual_bill", "Netflix Subscription")) = 6

-----------------------------------------------------------------------------
(* Claims about overlapping requests, checked under SpecOverlap            *)

\* the bills POST in hand saves an entry and is answered
BillPosted ==
    /\ held.pc = "loaded" /\ held'.pc = "idle"
    /\ HasKeys(held.json, {"name", "amount", "due_day"})

\* C21: when a bills POST and a sync_transactions call have both loaded the
\* record set before either saves, each save writes the record set its own
\* request loaded with its own change only, so that after both the persisted
\* record set is the one of the later save, without the change of the
\* earlier one, and both callers are answered with success.
C21_LastWriteWins ==
    /\ [][(sync.pc = "idle" /\ sync'.pc # "idle") => sync'.data = store]_vars
    /\ [][(held.pc = "idle" /\ held'.pc # "idle") => held'.data = store]_vars
    /\ [][(sync.pc # "idle" /\ sync'.pc # "idle") =>
              /\ sync'.data.bills = sync.data.bills
              /\ IsPrefix(sync.data.transactions, sync'.data.transactions)]_vars
    /\ [][Saved =>
              /\ store' = sync.data
              /\ Len(store.bills) > Len(sync.data.bills) => store'.bills # store.bills
              /\ result'.status = 200 /\ result'.body.success
              /\ result'.body.errors = sync.errors]_vars
    /\ [][BillPosted =>
              /\ store' = [held.data EXCEPT !.bills = Append(@, BillEntry(held.json))]
              /\ Len(store.transactions) > Len(held.data.transactions) =>
                    store'.transactions # store.transactions
              /\ result'.status = 200 /\ result'.body = Success]_vars

\* a sync call that imported a transaction has saved between the load and
\* the save of a bills POST: both have finished, the bill is stored and the
\* transaction and the cursor of the sync call are not
C21_Witness ==
    /\ sync.pc = "idle" /\ sync.calls = 1 /\ sync.total_imported >= 1
    /\ sync.errors = <<>> /\ sync.cursor = "c1"
    /\ held = NoRequest
    /\ result.op = "handle_bills" /\ result.status = 200
    /\ Len(store.bills) = 1
    /\ store.transactions = <<>>
    /\ store.plaid_items[1].cursor = None

-----------------------------------------------------------------------------
(* Claims about the stored transactions, checked under SpecOperations      *)

\* the transactions a sync request loaded: every append of line 223 is
\* counted by line 224
Loaded(s) == SubSeq(s.data.transactions, 1, Len(s.data.transactions) - s.total_imported)

====
